---- MODULE Spec2Model ----
(***************************************************************************)
(* State-machine model of the Smart Reminder session controller            *)
(* (src/app/page.tsx): the tracking flag, the session start time, the      *)
(* lastCheckedTimestamp React state, the activities queue, the two         *)
(* interval timers, and the asynchronous calls in flight (connectivity     *)
(* probes, Screenpipe queries).                                            *)
(*                                                                         *)
(* Time is an integer clock; an ISO-8601 timestamp is modelled by the      *)
(* clock value it denotes (toISOString is monotone in the instant).        *)
(* A sample carries its timestamp and appName; windowName and text are     *)
(* copied verbatim by the controller and read by none of its branches.     *)
(* The field "frame" is the identity of the sample inside the              *)
(* ActivitySource; the controller never reads it.                          *)
(*                                                                         *)
(* Closures: every function of the component body closes over the React    *)
(* state values of the render in which it was created. A callback given    *)
(* to setInterval / setTimeout inside startTracking therefore keeps the    *)
(* lastCheckedTimestamp and currentApp of the render in which              *)
(* startTracking was invoked ("cap"), while refs (xxxRef.current) are      *)
(* always read live. A click handler runs the closure of the latest        *)
(* render, which holds the current state values.                           *)
(*                                                                         *)
(* Timers: an active interval or a pending timeout may fire at any step;   *)
(* the model keeps which callbacks exist and what they captured, not the   *)
(* cadence (10 s, 1 s, analysisFrequencyMin). An awaited call (the probe,  *)
(* a query, an analysis request) completes at any later step, in any       *)
(* order.                                                                  *)
(*                                                                         *)
(* Analysis: the analysis interval hands the queue to analyzeAppUsage,     *)
(* which posts it to /api/analyze-reminders. A request is kept by its id;  *)
(* its response is a failure or a list of suggestions, and each suggestion *)
(* with shouldRemind becomes a ReminderItem of todoList. aiAnalysis (the   *)
(* displayed text) is read by no branch and is left out. Under Spec and    *)
(* SpecBurst the requests stay in flight; under SpecAnalysis their         *)
(* responses arrive.                                                       *)
(*                                                                         *)
(* Endpoint: route.ts holds two variants of /api/analyze-reminders, one    *)
(* with the embedded-JSON parser and one with the labeled-section parser;  *)
(* src/unnamed/part_000 holds a third parser (numbered blocks). Which one  *)
(* answers a request is left open. A response text is the sequence of its  *)
(* segments (JSON objects, braces, headings, labeled lines, phrases, other *)
(* text) and a string is the sequence of its characters, so that the       *)
(* patterns and the tests of the parsers are computed on the text. Under   *)
(* SpecParse a parser is applied to a response text; under SpecCycle one   *)
(* analysis request at a time is followed from the prompt to the           *)
(* ReminderItems.                                                          *)
(*                                                                         *)
(* Store, prompt and log sink: SpecStore adds markAsCompleted and          *)
(* deleteTodoItem to the analysis cycle; SpecPrompt follows the samples    *)
(* from a batch into the prompt that reaches the provider; SpecLog is the  *)
(* controller with the logAppSwitch calls of its polls; SpecSink and       *)
(* SpecSinkLong are the /api/logs route (src/unnamed/part_001) with its    *)
(* in-memory log, the second over more POSTs than the log keeps.           *)
(***************************************************************************)
EXTENDS Integers, Sequences, FiniteSets, TLC

\* ---------------------------------------------------------------- bounds
MaxTime == 2
MaxCalls == 3
MaxSamples == 60
\* The reminders of a JSON response.
MaxReminders == 2
\* The analysis cycles followed end to end, and the manual adds.
MaxCycles == 2
MaxManual == 2

\* ------------------------------------------------------------- constants
\* null (a timestamp or timer handle that is not set).
Null == -1
\* limit: 50 of the query.
QueryLimit == 50
\* The app names the ActivitySource reports.
Apps == {"A"}

VARIABLES
  clock,                 \* Date.now()
  source,                \* samples held by the ActivitySource, in recording order
  isTracking,            \* React state
  isTrackingRef,         \* isTrackingRef.current
  sessionStartTimeRef,   \* sessionStartTimeRef.current
  lastCheckedTimestamp,  \* React state
  activitiesQueueRef,    \* activitiesQueueRef.current
  fetchIntervalRef,      \* fetchIntervalRef.current: a timer id or Null
  analysisIntervalRef,   \* analysisIntervalRef.current: a timer id or Null
  intervals,             \* active setInterval timers
  timeouts,              \* pending setTimeout callbacks (the delayed first fetch)
  probes,                \* startTracking calls awaiting checkScreenpipeStatus
  inflight,              \* fetchAppActivity calls awaiting queryScreenpipe
  appHistory,            \* React state
  currentApp,            \* React state: an app name or "" for null
  errorMessage,          \* React state: a message or "" for null
  issued,                \* history: calls made so far (probes launched, startTracking
                         \* calls ignored, queries issued)
  appendLog,             \* history: samples appended to the queue since its last reset
  batchLog,              \* history: batches swapped out of the queue since its last reset
  lastPoll,              \* history: the fetchAppActivity call that completed last
  analyses,              \* analyzeAppUsage calls awaiting /api/analyze-reminders
  todoList,              \* React state: the ReminderItems
  lastStop,              \* history: Date.now() at the last stopTracking that took
                         \* effect, or Null
  exchange,              \* the request/response exchange with /api/analyze-reminders
                         \* that is followed from the prompt to the ReminderItems
  storeOp,               \* history: the last markAsCompleted / deleteTodoItem call
  logCalls,              \* the logAppSwitch calls made, each with the state of its
                         \* POST to /api/logs
  memoryLogs,            \* memoryLogs of the /api/logs route
  sinkLog                \* history: the valid POSTs to /api/logs since the last
                         \* DELETE, and the last response of the route

\* The state outside the session controller and the analysis exchange.
peripheral == <<storeOp, logCalls, memoryLogs, sinkLog>>

vars == <<clock, source, isTracking, isTrackingRef, sessionStartTimeRef,
          lastCheckedTimestamp, activitiesQueueRef, fetchIntervalRef,
          analysisIntervalRef, intervals, timeouts, probes, inflight,
          appHistory, currentApp, errorMessage, issued,
          appendLog, batchLog, lastPoll, analyses, todoList, lastStop, exchange, peripheral>>

Event(op, id, startTime, now) ==
  [op |-> op, id |-> id, startTime |-> startTime, now |-> now]

\* The closure of the present render.
Closure == [lastCheckedTimestamp |-> lastCheckedTimestamp, currentApp |-> currentApp]

\* The calls counted against MaxCalls.
Calls == issued.starts + issued.ignored + issued.polls

Min(a, b) == IF a <= b THEN a ELSE b

Reverse(s) == [i \in 1..Len(s) |-> s[Len(s) + 1 - i]]

RECURSIVE Flatten(_)
Flatten(ss) == IF ss = <<>> THEN <<>> ELSE Head(ss) \o Flatten(Tail(ss))

\* Array.prototype.sort with comparator a.timestamp - b.timestamp: a stable
\* sort, computed bucket by bucket in ascending order of timestamp.
RECURSIVE SortFrom(_, _)
SortFrom(s, t) ==
  LET later == {u \in {s[i].timestamp : i \in 1..Len(s)} : u >= t}
  IN IF later = {} THEN <<>>
     ELSE LET m == CHOOSE u \in later : \A v \in later : u <= v
          IN SelectSeq(s, LAMBDA x : x.timestamp = m) \o SortFrom(s, m + 1)

SortByTime(s) == SortFrom(s, 0)

Init ==
  /\ clock = 0
  /\ source = <<>>
  /\ isTracking = FALSE
  /\ isTrackingRef = FALSE
  /\ sessionStartTimeRef = Null
  /\ lastCheckedTimestamp = Null
  /\ activitiesQueueRef = <<>>
  /\ fetchIntervalRef = Null
  /\ analysisIntervalRef = Null
  /\ intervals = {}
  /\ timeouts = {}
  /\ probes = {}
  /\ inflight = {}
  /\ appHistory = <<>>
  /\ currentApp = ""
  /\ errorMessage = ""
  /\ issued = [starts |-> 0, ignored |-> 0, polls |-> 0, analyses |-> 0,
               probesFailed |-> 0]
  /\ appendLog = <<>>
  /\ batchLog = <<>>
  /\ lastPoll = Event("none", 0, Null, Null)
  /\ analyses = {}
  /\ todoList = <<>>
  /\ lastStop = Null
  /\ exchange = [stage |-> "none"]
  /\ storeOp = [op |-> "none", calls |-> 0]
  /\ logCalls = <<>>
  /\ memoryLogs = <<>>
  /\ sinkLog = [posted |-> 0, response |-> [status |-> 0]]

\* ------------------------------------------------------- ActivitySource

\* The clock advances by one; the ActivitySource may record one sample at the
\* new instant.
Tick ==
  /\ clock < MaxTime
  /\ clock' = clock + 1
  /\ \E a \in Apps \cup {"none"} :
       source' = IF a = "none" THEN source
                 ELSE Append(source, [timestamp |-> clock + 1, appName |-> a,
                                      frame |-> Len(source) + 1])
  /\ UNCHANGED <<lastPoll, analyses, todoList, lastStop, exchange, peripheral>>
  /\ UNCHANGED <<isTracking, isTrackingRef, sessionStartTimeRef,
                 lastCheckedTimestamp, activitiesQueueRef, fetchIntervalRef,
                 analysisIntervalRef, intervals, timeouts, probes, inflight,
                 appHistory, currentApp, errorMessage, issued,
                 appendLog, batchLog>>

\* The clock advances by one and the ActivitySource records more samples at the
\* new instant than one query returns.
TickBurst ==
  /\ clock < MaxTime
  /\ Len(source) + QueryLimit + 1 <= MaxSamples
  /\ clock' = clock + 1
  /\ source' = source \o
       [i \in 1..(QueryLimit + 1) |->
          [timestamp |-> clock + 1, appName |-> "A", frame |-> Len(source) + i]]
  /\ UNCHANGED <<isTracking, isTrackingRef, sessionStartTimeRef,
                 lastCheckedTimestamp, activitiesQueueRef, fetchIntervalRef,
                 analysisIntervalRef, intervals, timeouts, probes, inflight,
                 appHistory, currentApp, errorMessage, issued,
                 appendLog, batchLog, lastPoll, analyses, todoList, lastStop, exchange, peripheral>>

InWindow(s, startTime, endTime) ==
  s.timestamp > startTime /\ s.timestamp <= endTime

\* pipe.queryScreenpipe({contentType, startTime, endTime, limit}): the samples
\* of the half-open window (startTime, endTime], at most `limit` of them, in
\* ascending or descending order of timestamp.
QueryScreenpipe(startTime, endTime, limit, order) ==
  LET hits == SelectSeq(source, LAMBDA s : InWindow(s, startTime, endTime))
      ordered == IF order = "asc" THEN hits ELSE Reverse(hits)
  IN SubSeq(ordered, 1, Min(Len(ordered), limit))

\* ------------------------------------------------------- startTracking

\* A startTracking without its re-entrancy guard.
AlreadyTrackingNever == FALSE

\* if (isTrackingRef.current) return;
AlreadyTracking == isTrackingRef

\* startTracking up to its await of checkScreenpipeStatus.
StartTracking ==
  /\ Calls < MaxCalls
  /\ IF AlreadyTracking
     THEN /\ issued' = [issued EXCEPT !.ignored = @ + 1]
          /\ UNCHANGED <<clock, source, isTracking, isTrackingRef,
                         sessionStartTimeRef, lastCheckedTimestamp,
                         activitiesQueueRef, fetchIntervalRef,
                         analysisIntervalRef, intervals, timeouts, probes,
                         inflight, appHistory, currentApp, errorMessage,
                         appendLog, batchLog, lastPoll, analyses, todoList,
                         lastStop, exchange, peripheral>>
     ELSE /\ isTracking' = TRUE
          /\ isTrackingRef' = TRUE
          /\ probes' = probes \cup {[id |-> issued.starts + 1, cap |-> Closure]}
          /\ issued' = [issued EXCEPT !.starts = @ + 1]
          /\ UNCHANGED <<clock, source, sessionStartTimeRef,
                         lastCheckedTimestamp, activitiesQueueRef,
                         fetchIntervalRef, analysisIntervalRef, intervals,
                         timeouts, inflight, appHistory, currentApp,
                         errorMessage, appendLog, batchLog, lastPoll, analyses,
                         todoList, lastStop, exchange, peripheral>>

\* A failure branch that leaves the tracking flag set.
TrackingAfterFailedProbeKept == isTrackingRef

\* setIsTracking(false); isTrackingRef.current = false;
TrackingAfterFailedProbe == FALSE

\* checkScreenpipeStatus returned false (it catches the query's error itself).
ProbeFailed(p) ==
  /\ isTracking' = TrackingAfterFailedProbe
  /\ isTrackingRef' = TrackingAfterFailedProbe
  /\ errorMessage' = "Cannot connect to Screenpipe."
  /\ probes' = probes \ {p}
  /\ issued' = [issued EXCEPT !.probesFailed = @ + 1]
  /\ UNCHANGED <<lastPoll, analyses, todoList, lastStop, exchange, peripheral>>
  /\ UNCHANGED <<clock, source, sessionStartTimeRef, lastCheckedTimestamp,
                 activitiesQueueRef, fetchIntervalRef, analysisIntervalRef,
                 intervals, timeouts, inflight, appHistory, currentApp,
                 appendLog, batchLog>>

\* A commit that keeps the queue it finds.
QueueAtCommitKept == activitiesQueueRef

\* activitiesQueueRef.current = [];
QueueAtCommit == <<>>

\* checkScreenpipeStatus returned true: the rest of startTracking.
ProbeSucceeded(p) ==
  /\ appHistory' = <<>>
  /\ lastCheckedTimestamp' = Null
  /\ sessionStartTimeRef' = clock
  /\ activitiesQueueRef' = QueueAtCommit
  /\ fetchIntervalRef' = IF fetchIntervalRef = Null THEN p.id ELSE fetchIntervalRef
  /\ analysisIntervalRef' =
       IF analysisIntervalRef = Null THEN p.id ELSE analysisIntervalRef
  /\ intervals' = intervals
       \cup (IF fetchIntervalRef = Null
             THEN {[id |-> p.id, kind |-> "fetch", cap |-> p.cap]} ELSE {})
       \cup (IF analysisIntervalRef = Null
             THEN {[id |-> p.id, kind |-> "analysis", cap |-> p.cap]} ELSE {})
  /\ timeouts' = timeouts \cup {[id |-> p.id, cap |-> p.cap]}
  /\ probes' = probes \ {p}
  /\ appendLog' = <<>>
  /\ batchLog' = <<>>
  /\ UNCHANGED <<lastPoll, analyses, todoList, lastStop, exchange, peripheral>>
  /\ UNCHANGED <<clock, source, isTracking, isTrackingRef, inflight,
                 currentApp, errorMessage, issued>>

ProbeDone == \E p \in probes : ProbeFailed(p) \/ ProbeSucceeded(p)

\* -------------------------------------------------------- stopTracking

\* A stopTracking without its guard.
StopIgnoredNever == FALSE

\* if (!isTrackingRef.current) return;
StopIgnored == ~isTrackingRef

StopTracking ==
  IF StopIgnored
  THEN /\ UNCHANGED <<lastPoll, analyses, todoList, lastStop, exchange, peripheral>>
       /\ UNCHANGED <<clock, source, isTracking, isTrackingRef,
                      sessionStartTimeRef, lastCheckedTimestamp,
                      activitiesQueueRef, fetchIntervalRef, analysisIntervalRef,
                      intervals, timeouts, probes, inflight, appHistory,
                      currentApp, errorMessage, issued, appendLog,
                      batchLog>>
  ELSE /\ isTracking' = FALSE
       /\ isTrackingRef' = FALSE
       /\ sessionStartTimeRef' = Null
       /\ intervals' = {t \in intervals :
                          /\ ~(t.kind = "analysis" /\ t.id = analysisIntervalRef)
                          /\ ~(t.kind = "fetch" /\ t.id = fetchIntervalRef)}
       /\ analysisIntervalRef' = Null
       /\ fetchIntervalRef' = Null
       /\ lastStop' = clock
       /\ UNCHANGED <<lastPoll, analyses, todoList, exchange, peripheral>>
       /\ UNCHANGED <<clock, source, lastCheckedTimestamp, activitiesQueueRef,
                      timeouts, probes, inflight, appHistory, currentApp,
                      errorMessage, issued, appendLog, batchLog>>

\* ---------------------------------------------------- fetchAppActivity

\* const startTime = lastCheckedTimestamp || sessionStartTimeRef.current, with
\* lastCheckedTimestamp the value the running closure holds.
StartTime(cap) ==
  IF cap.lastCheckedTimestamp # Null THEN cap.lastCheckedTimestamp
  ELSE sessionStartTimeRef

\* A guard that looks at the tracking flag only.
FetchSkippedFlagOnly == ~isTrackingRef

\* A guard that also waits for the analysis requests in flight.
FetchSkippedWhileAnalysing ==
  ~isTrackingRef \/ sessionStartTimeRef = Null \/ analyses # {}

\* if (!isTrackingRef.current || !sessionStartTimeRef.current) return;
FetchSkipped == ~isTrackingRef \/ sessionStartTimeRef = Null

\* fetchAppActivity up to its await of queryScreenpipe, run by a closure
\* holding `cap`. Every variable but `timeouts` is decided here.
FetchAppActivity(cap) ==
  IF FetchSkipped
  THEN /\ UNCHANGED <<lastPoll, analyses, todoList, lastStop, exchange, peripheral>>
       /\ UNCHANGED <<clock, source, isTracking, isTrackingRef,
                      sessionStartTimeRef, lastCheckedTimestamp,
                      activitiesQueueRef, fetchIntervalRef, analysisIntervalRef,
                      intervals, probes, inflight, appHistory, currentApp,
                      errorMessage, issued, appendLog, batchLog>>
  ELSE /\ Calls < MaxCalls
       /\ inflight' = inflight \cup
            {[id |-> issued.polls + 1, startTime |-> StartTime(cap),
              now |-> clock, cap |-> cap]}
       /\ issued' = [issued EXCEPT !.polls = @ + 1]
       /\ UNCHANGED <<lastPoll, analyses, todoList, lastStop, exchange, peripheral>>
       /\ UNCHANGED <<clock, source, isTracking, isTrackingRef,
                      sessionStartTimeRef, lastCheckedTimestamp,
                      activitiesQueueRef, fetchIntervalRef, analysisIntervalRef,
                      intervals, probes, appHistory, currentApp, errorMessage,
                      appendLog, batchLog>>

\* The fetch interval's callback fires.
FetchIntervalFire ==
  \E t \in intervals :
    /\ t.kind = "fetch"
    /\ FetchAppActivity(t.cap)
    /\ UNCHANGED timeouts

\* The delayed first fetch scheduled by startTracking fires.
FirstFetchFire ==
  \E t \in timeouts :
    /\ timeouts' = timeouts \ {t}
    /\ FetchAppActivity(t.cap)

\* The "Test Fetch" button.
ManualFetch ==
  /\ FetchAppActivity(Closure)
  /\ UNCHANGED timeouts

\* results.data.map(item => ({content: {...}})): the Activity of a raw item.
Activity(item) == item

\* extractAppEvents: the items sorted by timestamp, one event for each item
\* that has a timestamp and an appName.
ExtractAppEvents(data) ==
  LET sortedData == SortByTime(data)
      valid == SelectSeq(sortedData, LAMBDA item : item.appName # "")
  IN [i \in 1..Len(valid) |->
        [timestamp |-> valid[i].timestamp, appName |-> valid[i].appName]]

\* The first of the items with the greatest timestamp (a stable descending sort).
Latest(data) ==
  LET top == CHOOSE i \in 1..Len(data) :
               /\ \A j \in 1..Len(data) : data[j].timestamp <= data[i].timestamp
               /\ \A j \in 1..(i - 1) : data[j].timestamp < data[i].timestamp
  IN data[top]

\* updateCurrentAppFromResults, run by a closure holding `cap`.
UpdatedCurrentApp(data, cap) ==
  LET appName == Latest(data).appName
  IN IF appName # "" /\ appName # cap.currentApp THEN appName ELSE currentApp

\* The queue after the poll's activities are appended.
QueueAfterAppend(queue, activities) == queue \o activities

\* A catch block that ends the session's tracking.
TrackingAfterErrorStopped == FALSE

\* The catch blocks of fetchAppActivity and analyzeAppUsage assign neither
\* isTracking nor isTrackingRef.current.
TrackingAfterError == isTrackingRef

\* queryScreenpipe threw: the catch block of fetchAppActivity.
PollFailed(p) ==
  /\ errorMessage' = "Failed to connect to Screenpipe API. Is the service running?"
  /\ isTracking' = (isTracking /\ TrackingAfterError)
  /\ isTrackingRef' = TrackingAfterError
  /\ inflight' = inflight \ {p}
  /\ lastPoll' = Event("pollError", p.id, p.startTime, p.now)
  /\ UNCHANGED <<clock, source, sessionStartTimeRef,
                 lastCheckedTimestamp, activitiesQueueRef, fetchIntervalRef,
                 analysisIntervalRef, intervals, timeouts, probes, appHistory,
                 currentApp, issued, appendLog, batchLog, analyses, todoList,
                 lastStop, exchange, peripheral>>

\* An empty-result branch that leaves lastCheckedTimestamp as it was.
CheckedAfterEmptyStale(now) == lastCheckedTimestamp

\* setLastCheckedTimestamp(now) of the empty-result branch.
CheckedAfterEmpty(now) == now

\* queryScreenpipe returned: the rest of fetchAppActivity.
PollReturned(p, order) ==
  LET data == QueryScreenpipe(p.startTime, p.now, QueryLimit, order)
      activities == [i \in 1..Len(data) |-> Activity(data[i])]
      appEvents == ExtractAppEvents(data)
  IN IF Len(data) = 0
     THEN /\ lastCheckedTimestamp' = CheckedAfterEmpty(p.now)
          /\ inflight' = inflight \ {p}
          /\ lastPoll' = Event("pollEmpty", p.id, p.startTime, p.now)
          /\ UNCHANGED <<clock, source, isTracking, isTrackingRef,
                         sessionStartTimeRef, activitiesQueueRef,
                         fetchIntervalRef, analysisIntervalRef, intervals,
                         timeouts, probes, appHistory, currentApp, errorMessage,
                         issued, appendLog, batchLog, analyses, todoList,
                         lastStop, exchange, storeOp, memoryLogs, sinkLog>>
     ELSE /\ activitiesQueueRef' = QueueAfterAppend(activitiesQueueRef, activities)
          /\ appHistory' = IF Len(appEvents) > 0
                           THEN SortByTime(appHistory \o appEvents)
                           ELSE appHistory
          /\ currentApp' = UpdatedCurrentApp(data, p.cap)
          /\ lastCheckedTimestamp' = p.now
          /\ inflight' = inflight \ {p}
          /\ appendLog' = appendLog \o activities
          /\ lastPoll' = Event("pollAppend", p.id, p.startTime, p.now)
          /\ UNCHANGED <<clock, source, isTracking, isTrackingRef,
                         sessionStartTimeRef, fetchIntervalRef,
                         analysisIntervalRef, intervals, timeouts, probes,
                         errorMessage, issued, batchLog, analyses, todoList,
                         lastStop, exchange, storeOp, memoryLogs, sinkLog>>

\* A poll completes. The logAppSwitch calls of the poll are not followed.
PollDone ==
  \E p \in inflight :
    \/ PollFailed(p)
    \/ \E order \in {"asc", "desc"} :
         PollReturned(p, order) /\ UNCHANGED logCalls

\* ------------------------------------------------ the log sink calls

\* logAppSwitch up to its await of fetch('/api/logs'): nothing for an event
\* without an appName, else the POST in flight with
\* {timestamp: new Date(event.timestamp).getTime(), app: event.appName,
\*  windowName: event.windowName || ''} as its body.
LogAppSwitch(event) ==
  IF event.appName = "" THEN <<>>
  ELSE << [request |-> [timestamp |-> event.timestamp, app |-> event.appName,
                        windowName |-> ""],
           state |-> "pending"] >>

\* appEvents.forEach(event => { logAppSwitch(event); })
LogCallsOf(appEvents) ==
  Flatten([i \in 1..Len(appEvents) |-> LogAppSwitch(appEvents[i])])

MaxLogCalls == 2

\* A poll completes and the logAppSwitch calls it makes are followed.
PollDoneLogged ==
  \E p \in inflight :
    \/ PollFailed(p)
    \/ \E order \in {"asc", "desc"} :
         /\ PollReturned(p, order)
         /\ logCalls' = logCalls \o LogCallsOf(ExtractAppEvents(
              QueryScreenpipe(p.startTime, p.now, QueryLimit, order)))
         /\ Len(logCalls') <= MaxLogCalls

\* A logAppSwitch whose POST is answered again by another POST.
LogSettledRetried(calls, i, outcome) ==
  IF outcome = "ok" THEN [calls EXCEPT ![i].state = outcome]
  ELSE Append([calls EXCEPT ![i].state = outcome], calls[i])

\* The rest of logAppSwitch: a response that is not ok and a thrown fetch
\* are written to the console, and nothing else is done about them.
LogSettled(calls, i, outcome) == [calls EXCEPT ![i].state = outcome]

\* The POST of a logAppSwitch call completes: with a 2xx response, with
\* another response, or fetch throws.
LogCallDone ==
  /\ \E i \in 1..Len(logCalls), outcome \in {"ok", "notOk", "threw"} :
       /\ logCalls[i].state = "pending"
       /\ logCalls' = LogSettled(logCalls, i, outcome)
  /\ UNCHANGED <<clock, source, isTracking, isTrackingRef, sessionStartTimeRef,
                 lastCheckedTimestamp, activitiesQueueRef, fetchIntervalRef,
                 analysisIntervalRef, intervals, timeouts, probes, inflight,
                 appHistory, currentApp, errorMessage, issued, appendLog,
                 batchLog, lastPoll, analyses, todoList, lastStop, exchange,
                 storeOp, memoryLogs, sinkLog>>

\* ------------------------------------------------ the analysis interval

\* The batch handed to analyzeAppUsage: [...activitiesQueueRef.current].
SwapBatch(queue) == queue

\* A hand-over that leaves the batch in the queue.
QueueAfterSwapKept(queue) == queue

\* activitiesQueueRef.current = [] after the hand-over.
QueueAfterSwap(queue) == <<>>

\* A callback that takes every queue for non-empty.
QueueNonEmptyAlways(queue) == TRUE

\* if (activitiesQueueRef.current.length > 0)
QueueNonEmpty(queue) == Len(queue) > 0

\* analyzeAppUsage up to its await of fetch('/api/analyze-reminders'): the
\* request in flight. settings is set in every closure that can run it (the
\* start button is disabled until the settings are loaded).
AnalyzeAppUsage(id) == {[id |-> id]}

\* The analysis interval's callback fires.
AnalysisIntervalFire ==
  \E t \in intervals :
    /\ t.kind = "analysis"
    /\ IF QueueNonEmpty(activitiesQueueRef)
       THEN /\ activitiesQueueRef' = QueueAfterSwap(activitiesQueueRef)
            /\ batchLog' = Append(batchLog,
                 [items |-> SwapBatch(activitiesQueueRef),
                  pending |-> {p.id : p \in inflight}])
            /\ analyses' = analyses \cup AnalyzeAppUsage(issued.analyses + 1)
            /\ issued' = [issued EXCEPT !.analyses = @ + 1]
            /\ UNCHANGED <<lastPoll, todoList, lastStop, exchange, peripheral>>
            /\ UNCHANGED <<clock, source, isTracking, isTrackingRef,
                           sessionStartTimeRef, lastCheckedTimestamp,
                           fetchIntervalRef, analysisIntervalRef, intervals,
                           timeouts, probes, inflight, appHistory, currentApp,
                           errorMessage, appendLog>>
       ELSE /\ UNCHANGED <<lastPoll, analyses, todoList, lastStop, exchange, peripheral>>
            /\ UNCHANGED <<clock, source, isTracking, isTrackingRef,
                           sessionStartTimeRef, lastCheckedTimestamp,
                           activitiesQueueRef, fetchIntervalRef,
                           analysisIntervalRef, intervals, timeouts, probes,
                           inflight, appHistory, currentApp, errorMessage,
                           issued, appendLog, batchLog>>

\* ------------------------------------------- /api/analyze-reminders

\* A string is the sequence of its characters.
Chars(c, n) == [i \in 1..n |-> c]

\* String.prototype.includes
Includes(s, sub) ==
  \E i \in 0..(Len(s) - Len(sub)) : SubSeq(s, i + 1, i + Len(sub)) = sub

\* A JavaScript object is a record; a property it lacks is a field it lacks.
Has(o, field) == field \in DOMAIN o

\* { ...o, [field]: value }
With(o, field, value) ==
  [f \in DOMAIN o \cup {field} |-> IF f = field THEN value ELSE o[f]]

\* The text of a model response is the sequence of its segments:
\*   [t |-> "object", json |-> v]  a brace-delimited span that JSON.parse
\*                                 deserializes to v, taken as long as possible
\*   [t |-> "malformed"]           a brace-delimited span that it does not
\*   [t |-> "{"], [t |-> "}"]      a brace on its own
\*   [t |-> "fence"]               a markdown code fence line
\*   any other segment             text without braces
OpensBrace(seg) == seg.t \in {"object", "malformed", "{"}
ClosesBrace(seg) == seg.t \in {"object", "malformed", "}"}

\* text.match(/\{[\s\S]*\}/): the span from the first opening brace to the
\* last closing brace after it, or <<>> for null.
JsonMatch(text) ==
  LET opens == {i \in 1..Len(text) : OpensBrace(text[i])}
  IN IF opens = {} THEN <<>>
     ELSE LET first == CHOOSE i \in opens : \A j \in opens : i <= j
              closes == {j \in first..Len(text) : ClosesBrace(text[j])}
          IN IF closes = {} THEN <<>>
             ELSE SubSeq(text, first,
                         CHOOSE j \in closes : \A k \in closes : k <= j)

\* JSON.parse(jsonMatch[0]): the span deserializes when it is one object and
\* nothing else; anything else is a SyntaxError.
JsonParse(span) ==
  IF Len(span) = 1 /\ span[1].t = "object"
  THEN [threw |-> FALSE, value |-> span[1].json]
  ELSE [threw |-> TRUE]

Undefined == <<"u", "n", "d", "e", "f", "i", "n", "e", "d">>

\* confidence is carried in tenths: 7 stands for 0.7.
MinConfidence == 7

\* A filter that leaves out the test of the length.
HasGoodDescriptionAnyLength(reminder) ==
  /\ reminder.description # reminder.title
  /\ ~(Has(reminder, "appName") /\ reminder.description = reminder.appName)
  /\ ~Includes(reminder.description, Undefined)
  /\ Has(reminder, "confidence") /\ reminder.confidence >= MinConfidence

\* The filter callback of extractSuggestionsFromText. A comparison with
\* undefined (reminder.confidence >= 0.7 on a reminder without confidence) is
\* false; reading .length of an undefined description throws.
HasGoodDescription(reminder) ==
  /\ Len(reminder.description) > 20
  /\ reminder.description # reminder.title
  /\ ~(Has(reminder, "appName") /\ reminder.description = reminder.appName)
  /\ ~Includes(reminder.description, Undefined)
  /\ Has(reminder, "confidence") /\ reminder.confidence >= MinConfidence

\* The map callback: { ...reminder, priority: reminder.priority || 'medium' }
WithPriority(reminder) ==
  With(reminder, "priority",
       IF Has(reminder, "priority") THEN reminder.priority ELSE "medium")

RECURSIVE MapSeq(_, _)
MapSeq(Op(_), s) ==
  IF s = <<>> THEN <<>> ELSE <<Op(Head(s))>> \o MapSeq(Op, Tail(s))

EmptyAnalysis == [reminderSuggestions |-> <<>>, generalInsights |-> <<>>]

\* The try block of extractSuggestionsFromText (embedded-JSON variant).
TryExtract(text) ==
  LET jsonMatch == JsonMatch(text)
      parse == JsonParse(jsonMatch)
      parsed == parse.value
      reminders == IF Has(parsed, "reminders") THEN parsed.reminders ELSE <<>>
  IN IF jsonMatch = <<>> THEN [threw |-> FALSE, value |-> EmptyAnalysis]
     ELSE IF parse.threw THEN [threw |-> TRUE]
     ELSE IF \E i \in 1..Len(reminders) : ~Has(reminders[i], "description")
     THEN [threw |-> TRUE]
     ELSE [threw |-> FALSE,
           value |->
             [reminderSuggestions |->
                MapSeq(WithPriority, SelectSeq(reminders, HasGoodDescription)),
              generalInsights |->
                IF Has(parsed, "insights")
                THEN SelectSeq(parsed.insights, LAMBDA insight : Len(insight) > 10)
                ELSE <<>>]]

\* A function body without a catch block: what is thrown leaves the function.
Uncaught(outcome) == outcome

\* catch (error) { return { reminderSuggestions: [], generalInsights: [] } }
Caught(outcome) ==
  IF outcome.threw THEN [threw |-> FALSE, value |-> EmptyAnalysis] ELSE outcome

\* extractSuggestionsFromText of the embedded-JSON variant of the endpoint.
ExtractSuggestionsFromText(text) == Caught(TryExtract(text))

\* Segments of a response in the labeled layout:
\*   [t |-> "heading", hashes |-> b]          "Reminder Suggestions" and the
\*                                            line break after it, preceded
\*                                            by "### " or not
\*   [t |-> "insights", hashes |-> b, colon |-> c, len]
\*                                            "General Insights", preceded by
\*                                            "### " or not, followed by a
\*                                            colon or not
\*   [t |-> "item"]                           the marker "1. **" of a numbered
\*                                            entry
\*   [t |-> "field", label |-> l, value |-> v]  the line "- l: v"
\*   [t |-> "brief", action, verb, appName, len]  the phrase
\*        "<briefly|quickly> <used|opened|checked|visited> <appName>" with the
\*        letters, digits and blanks after the verb as appName
\*   [t |-> "prose", len |-> n]               n characters of other text
HeadingLen == 21
DashLen == 2
LabelLen(label) ==
  CASE label = "title" -> 5
    [] label = "description" -> 11
    [] label = "app name" -> 8
    [] label = "window name" -> 11
    [] label = "should remind" -> 13

\* The number of characters of a segment.
SegLen(seg) ==
  CASE seg.t = "heading" -> HeadingLen
    [] seg.t = "field" -> DashLen + LabelLen(seg.label) + 2 + Len(seg.value) + 1
    [] OTHER -> IF Has(seg, "len") THEN seg.len ELSE 1

\* The index of the first character of segment k.
RECURSIVE StartOf(_, _)
StartOf(text, k) ==
  IF k = 1 THEN 0 ELSE StartOf(text, k - 1) + SegLen(text[k - 1])

\* /reminder suggestions:?[\s\S]*?(?=general insights:|$)/i .exec(text)?.[0] || "":
\* from the first heading to the first "general insights:" after it (the
\* colon is part of the pattern) or to the end of the text.
ReminderSection(text) ==
  LET heads == {i \in 1..Len(text) : text[i].t = "heading"}
  IN IF heads = {} THEN <<>>
     ELSE LET h == CHOOSE i \in heads : \A j \in heads : i <= j
              ends == {j \in (h + 1)..Len(text) :
                         text[j].t = "insights" /\ text[j].colon}
          IN SubSeq(text, h,
                    IF ends = {} THEN Len(text)
                    ELSE (CHOOSE j \in ends : \A k \in ends : j <= k) - 1)

\* The characters of the section.
RECURSIVE SectionLen(_)
SectionLen(section) ==
  IF section = <<>> THEN 0 ELSE SegLen(Head(section)) + SectionLen(Tail(section))

\* Where the label of field k starts and where its value starts.
LabelAt(section, k) == StartOf(section, k) + DashLen
ValueAt(section, k) == LabelAt(section, k) + LabelLen(section[k].label) + 2

\* The fields with the given label that a pattern "label:?\s*(...)" can match
\* inside context = section.substring(from, to): the label lies inside and at
\* least one character of the value does.
FieldsIn(section, label, from, to) ==
  {k \in 1..Len(section) :
     /\ section[k].t = "field"
     /\ section[k].label = label
     /\ LabelAt(section, k) >= from
     /\ ValueAt(section, k) < to}

\* The part of the value of field k that lies before the end of the context.
ValueIn(section, k, to) ==
  SubSeq(section[k].value, 1,
         Min(Len(section[k].value), to - ValueAt(section, k)))

\* /label:?\s*([^\n]+)/i.exec(context): the captured group of the first
\* match, or <<>> when there is no match.
FieldMatch(section, label, from, to) ==
  LET found == FieldsIn(section, label, from, to)
  IN IF found = {} THEN <<>>
     ELSE ValueIn(section, CHOOSE k \in found : \A j \in found : k <= j, to)

True == <<"t", "r", "u", "e">>
False == <<"f", "a", "l", "s", "e">>

\* /should remind:?\s*(true|false)/i.exec(context): the captured group of the
\* first field whose value, as far as the context reaches, starts with true
\* or false; <<>> when there is none.
ShouldRemindMatch(section, from, to) ==
  LET Starts(v, w) == Len(v) >= Len(w) /\ SubSeq(v, 1, Len(w)) = w
      found == {k \in FieldsIn(section, "should remind", from, to) :
                  \/ Starts(ValueIn(section, k, to), True)
                  \/ Starts(ValueIn(section, k, to), False)}
  IN IF found = {} THEN <<>>
     ELSE LET k == CHOOSE i \in found : \A j \in found : i <= j
          IN IF Starts(ValueIn(section, k, to), True) THEN True ELSE False

\* The indices of the "app name" fields of the section, in order: the matches
\* of /app name:?\s*([A-Za-z0-9\s]+)/gi.
RECURSIVE AppNameMatches(_, _)
AppNameMatches(section, k) ==
  IF k > Len(section) THEN <<>>
  ELSE (IF section[k].t = "field" /\ section[k].label = "app name"
        THEN <<k>> ELSE <<>>) \o AppNameMatches(section, k + 1)

\* The context of an "app name" match: radius characters on each side of the
\* index of the match, cut at the ends of the section.
ContextStart(section, k, radius) == IF LabelAt(section, k) - radius > 0
                                    THEN LabelAt(section, k) - radius ELSE 0
ContextEnd(section, k, radius) ==
  Min(SectionLen(section), LabelAt(section, k) + radius)

\* String literals of the heuristic strategy.
Quick == <<"Q", "u", "i", "c", "k", " ">>
CheckDetected == <<" ", "c", "h", "e", "c", "k", " ", "d", "e", "t", "e", "c",
                   "t", "e", "d">>
You == <<"Y", "o", "u", " ">>
NeedToReturn == <<".", " ", "N", "e", "e", "d", " ", "t", "o", " ", "r", "e",
                  "t", "u", "r", "n", " ", "t", "o", " ", "i", "t", " ", "l",
                  "a", "t", "e", "r", "?">>

\* The matches of briefUsageRegex in the whole text, in order.
BriefMatches(text) == SelectSeq(text, LAMBDA seg : seg.t = "brief")

\* The suggestion pushed for one match of briefUsageRegex. The greedy appName
\* group takes the blanks that the optional window group would need, so that
\* group stays undefined.
BriefTitle(m) == Quick \o m.appName \o CheckDetected
BriefDescription(m) ==
  You \o m.action \o <<" ">> \o m.verb \o <<" ">> \o m.appName \o NeedToReturn

\* extractSuggestionsFromText of the labeled-section variant of the endpoint:
\* one suggestion for each "app name" match whose context has a title and a
\* description; when there is none, one for each brief-usage phrase.
RECURSIVE LabeledSuggestions(_, _)
LabeledSuggestions(section, matches) ==
  IF matches = <<>> THEN <<>>
  ELSE LET k == Head(matches)
           from == ContextStart(section, k, 300)
           to == ContextEnd(section, k, 300)
           title == FieldMatch(section, "title", from, to)
           desc == FieldMatch(section, "description", from, to)
           window == FieldMatch(section, "window name", from, to)
           remind == ShouldRemindMatch(section, from, to)
           base == [title |-> title, description |-> desc,
                    appName |-> section[k].value,
                    shouldRemind |-> (remind = <<>> \/ remind = True)]
       IN (IF title # <<>> /\ desc # <<>>
           THEN <<IF window = <<>> THEN base
                  ELSE With(base, "windowName", window)>>
           ELSE <<>>)
          \o LabeledSuggestions(section, Tail(matches))

BriefSuggestion(m) ==
  [title |-> BriefTitle(m), description |-> BriefDescription(m),
   appName |-> m.appName, shouldRemind |-> TRUE]

\* A parser that runs the heuristic whatever the labeled sections gave.
ExtractSuggestionsFromTextWithBrief(text) ==
  LET section == ReminderSection(text)
  IN LabeledSuggestions(section, AppNameMatches(section, 1))
       \o MapSeq(BriefSuggestion, BriefMatches(text))

ExtractSuggestionsFromTextLabeled(text) ==
  LET section == ReminderSection(text)
      suggestions == LabeledSuggestions(section, AppNameMatches(section, 1))
  IN IF suggestions # <<>> THEN suggestions
     ELSE MapSeq(BriefSuggestion, BriefMatches(text))

\* extractSuggestionsFromAnalysis of page.tsx: the same two strategies with a
\* context of 200 characters on each side; it reads no "should remind" and no
\* "window name" and sets shouldNotify to true.
RECURSIVE PageLabeledSuggestions(_, _)
PageLabeledSuggestions(section, matches) ==
  IF matches = <<>> THEN <<>>
  ELSE LET k == Head(matches)
           from == ContextStart(section, k, 200)
           to == ContextEnd(section, k, 200)
           title == FieldMatch(section, "title", from, to)
           desc == FieldMatch(section, "description", from, to)
       IN (IF title # <<>> /\ desc # <<>>
           THEN <<[title |-> title, description |-> desc,
                   shouldNotify |-> TRUE, appName |-> section[k].value]>>
           ELSE <<>>)
          \o PageLabeledSuggestions(section, Tail(matches))

PageBriefSuggestion(m) ==
  [title |-> BriefTitle(m), description |-> BriefDescription(m),
   shouldNotify |-> TRUE, appName |-> m.appName]

ExtractSuggestionsFromAnalysis(analysis) ==
  LET section == ReminderSection(analysis)
      suggestions == PageLabeledSuggestions(section, AppNameMatches(section, 1))
  IN IF suggestions # <<>> THEN suggestions
     ELSE MapSeq(PageBriefSuggestion, BriefMatches(analysis))

\* The numbered-block variant of the endpoint (src/unnamed/part_000).

\* text.match(/### X([\s\S]*?)(?=###|$)/)?.[1] || '': what follows the first
\* "### X" up to the next "###" or the end of the text.
HashSection(text, t) ==
  LET heads == {i \in 1..Len(text) : text[i].t = t /\ text[i].hashes}
  IN IF heads = {} THEN <<>>
     ELSE LET h == CHOOSE i \in heads : \A j \in heads : i <= j
              ends == {j \in (h + 1)..Len(text) :
                         Has(text[j], "hashes") /\ text[j].hashes}
          IN SubSeq(text, h + 1,
                    IF ends = {} THEN Len(text)
                    ELSE (CHOOSE j \in ends : \A k \in ends : j <= k) - 1)

\* section.split(/\d+\.\s+\*\*/) without the blocks that are blank.
RECURSIVE Blocks(_, _)
Blocks(section, block) ==
  IF section = <<>> THEN IF block = <<>> THEN <<>> ELSE <<block>>
  ELSE IF Head(section).t = "item"
       THEN (IF block = <<>> THEN <<>> ELSE <<block>>)
            \o Blocks(Tail(section), <<>>)
       ELSE Blocks(Tail(section), Append(block, Head(section)))

\* block.match(/Label:\s*(.*)/): the first field of the block with the label,
\* as a sequence of at most one value.
BlockMatch(block, label) ==
  LET found == {k \in 1..Len(block) :
                  block[k].t = "field" /\ block[k].label = label}
  IN IF found = {} THEN <<>>
     ELSE <<block[CHOOSE k \in found : \A j \in found : k <= j].value>>

\* block.match(/Should Remind:\s*(true|false)/)
BlockShouldRemind(block) ==
  LET Starts(v, w) == Len(v) >= Len(w) /\ SubSeq(v, 1, Len(w)) = w
      found == {k \in 1..Len(block) :
                  /\ block[k].t = "field"
                  /\ block[k].label = "should remind"
                  /\ Starts(block[k].value, True) \/ Starts(block[k].value, False)}
  IN IF found = {} THEN <<>>
     ELSE IF Starts(block[CHOOSE k \in found : \A j \in found : k <= j].value, True)
          THEN True ELSE False

\* The suggestions pushed for one block: one when it has a title, a
\* description and an app name.
BlockSuggestions(block) ==
  LET title == BlockMatch(block, "title")
      desc == BlockMatch(block, "description")
      app == BlockMatch(block, "app name")
      window == BlockMatch(block, "window name")
      remind == BlockShouldRemind(block)
      base == [title |-> title[1], description |-> desc[1], appName |-> app[1],
               shouldRemind |-> (remind = <<>> \/ remind = True)]
  IN IF title # <<>> /\ desc # <<>> /\ app # <<>>
     THEN <<IF window = <<>> THEN base ELSE With(base, "windowName", window[1])>>
     ELSE <<>>

\* The try block of extractSuggestionsFromText (numbered-block variant):
\* pattern matching on a string, which does not throw.
TryExtractNumbered(text) ==
  [threw |-> FALSE,
   value |->
     [reminderSuggestions |->
        Flatten(MapSeq(BlockSuggestions,
                       Blocks(HashSection(text, "heading"), <<>>))),
      generalInsights |-> Blocks(HashSection(text, "insights"), <<>>)]]

ExtractSuggestionsFromTextNumbered(text) == Caught(TryExtractNumbered(text))

\* ------------------------------------------- model responses

\* Reminder objects of a JSON response: one that passes every test of the
\* filter, one for each way of failing a test, one without confidence, one
\* without description, and a second passing one that says not to remind.
Reminder(title, description, appName, confidence) ==
  [title |-> title, description |-> description, appName |-> appName,
   shouldRemind |-> TRUE, confidence |-> confidence]

Reminders ==
  { Reminder(Chars("t", 5), Chars("d", 21), <<"A">>, 7),
    Reminder(Chars("t", 5), Chars("d", 20), <<"A">>, 9),
    Reminder(Chars("t", 21), Chars("t", 21), <<"A">>, 9),
    Reminder(Chars("t", 5), Chars("a", 21), Chars("a", 21), 9),
    Reminder(Chars("t", 5), Chars("d", 12) \o Undefined, <<"A">>, 9),
    Reminder(Chars("t", 5), Chars("d", 21), <<"A">>, 6),
    [title |-> Chars("t", 5), description |-> Chars("d", 21),
     appName |-> <<"A">>, shouldRemind |-> TRUE],
    [title |-> Chars("t", 5), appName |-> <<"A">>, shouldRemind |-> TRUE,
     confidence |-> 9],
    [title |-> Chars("s", 5), description |-> Chars("e", 30),
     appName |-> <<"A">>, windowName |-> <<"W">>, shouldRemind |-> FALSE,
     confidence |-> 10, priority |-> "high"] }

\* The values a JSON response deserializes to: up to MaxReminders reminders,
\* with or without insights (one of 10 characters, one of 11).
ReminderLists ==
  UNION { [1..n -> Reminders] : n \in 0..MaxReminders }

JsonValues ==
  { [reminders |-> rs] : rs \in ReminderLists }
    \cup { [reminders |-> rs, insights |-> <<Chars("i", 10), Chars("i", 11)>>] :
             rs \in ReminderLists }
    \cup { [insights |-> <<Chars("i", 11)>>] }

Object(v) == [t |-> "object", json |-> v]
Prose(n) == [t |-> "prose", len |-> n]
Field(label, value) == [t |-> "field", label |-> label, value |-> value]
Heading(hashes) == [t |-> "heading", hashes |-> hashes]
Insights(hashes, colon) ==
  [t |-> "insights", hashes |-> hashes, colon |-> colon, len |-> 17]
Brief(appName) ==
  [t |-> "brief", action |-> <<"b", "r", "i", "e", "f", "l", "y">>,
   verb |-> <<"u", "s", "e", "d">>, appName |-> appName,
   len |-> 13 + Len(appName)]

\* Responses that carry a JSON object: bare, inside a markdown code fence,
\* and after a sentence of introduction.
JsonTexts ==
  { <<Object(v)>> : v \in JsonValues }
    \cup { <<[t |-> "fence"], Object(v), [t |-> "fence"]>> : v \in JsonValues }
    \cup { <<Prose(30), Object(v)>> : v \in JsonValues }

\* Responses with braces that hold no JSON object: a brace that is never
\* closed, a span that does not deserialize, two objects in a row, a closing
\* brace before the opening one.
BrokenTexts ==
  LET v == [reminders |-> <<Reminder(Chars("t", 5), Chars("d", 21), <<"A">>, 7)>>]
  IN { <<[t |-> "{"], Prose(30)>>,
       <<[t |-> "malformed"]>>,
       <<[t |-> "{"], Prose(30), [t |-> "}"]>>,
       <<Object(v), Prose(5), Object(v)>>,
       <<[t |-> "}"], Prose(5), [t |-> "{"]>> }

\* One entry of the labeled layout that createAIPrompt of page.tsx asks for.
Entry(title, description, remind) ==
  << [t |-> "item"], Field("title", title), Field("description", description),
     Field("app name", <<"A">>), Field("window name", <<"W">>),
     Field("should remind", remind) >>

\* Responses in the labeled layout: one entry to remind of, one not to remind
\* of, one with a short description, one without description, two entries
\* next to each other, two entries 700 characters apart, a heading without
\* "### " and an insights heading with a colon, an entry to remind of next to
\* one not to remind of, and an entry after a brief-usage phrase.
LabeledTexts ==
  { <<Heading(TRUE)>> \o Entry(Chars("t", 5), Chars("d", 21), True)
      \o <<Insights(TRUE, FALSE), Prose(40)>>,
    <<Heading(TRUE)>> \o Entry(Chars("t", 5), Chars("d", 21), False)
      \o <<Insights(TRUE, FALSE), Prose(40)>>,
    <<Heading(TRUE)>> \o Entry(Chars("t", 5), Chars("d", 5), True),
    <<Heading(TRUE), [t |-> "item"], Field("title", Chars("t", 5)),
      Field("app name", <<"A">>)>>,
    <<Heading(TRUE)>> \o Entry(Chars("t", 5), Chars("d", 21), True)
      \o Entry(Chars("s", 5), Chars("e", 30), True),
    <<Heading(TRUE)>> \o Entry(Chars("t", 5), Chars("d", 21), True)
      \o <<Prose(700)>> \o Entry(Chars("s", 5), Chars("e", 30), False),
    <<Prose(30), Heading(FALSE)>> \o Entry(Chars("t", 5), Chars("d", 21), True)
      \o <<Insights(FALSE, TRUE), Field("app name", <<"B">>)>>,
    <<Heading(TRUE)>> \o Entry(Chars("t", 5), Chars("d", 21), True)
      \o Entry(Chars("s", 5), Chars("e", 30), False),
    <<Brief(<<"B">>), Prose(20), Heading(TRUE)>>
      \o Entry(Chars("t", 5), Chars("d", 21), True) }

\* Responses with nothing but free text: with a brief-usage phrase or without.
FreeTexts ==
  { <<>>, <<Prose(60)>>, <<Prose(20), Brief(<<"A">>), Prose(20)>>,
    <<Brief(<<"A">>), Prose(5), Brief(<<"B">>)>> }

Texts == JsonTexts \cup BrokenTexts \cup LabeledTexts \cup FreeTexts

\* --------------------------------------------- the parsers on their own

controller == <<clock, source, isTracking, isTrackingRef, sessionStartTimeRef,
                lastCheckedTimestamp, activitiesQueueRef, fetchIntervalRef,
                analysisIntervalRef, intervals, timeouts, probes, inflight,
                appHistory, currentApp, errorMessage, issued, appendLog,
                batchLog, lastPoll, analyses, todoList, lastStop, peripheral>>

\* A call of a parser on a response text, with what it returns or throws.
Parsed(parser, text, outcome) ==
  /\ exchange.stage = "none"
  /\ exchange' = [stage |-> "parsed", parser |-> parser, text |-> text,
                  outcome |-> outcome]
  /\ UNCHANGED controller

ParseEmbeddedJson ==
  \E text \in Texts : Parsed("json", text, ExtractSuggestionsFromText(text))

ParseLabeled ==
  \E text \in Texts :
    Parsed("labeled", text,
           [threw |-> FALSE, value |-> ExtractSuggestionsFromTextLabeled(text)])

ParseNumbered ==
  \E text \in Texts :
    Parsed("numbered", text, ExtractSuggestionsFromTextNumbered(text))

\* The fallback parser of the page applied to the analysis text of a response.
ParsePage ==
  \E text \in Texts :
    Parsed("page", text,
           [threw |-> FALSE, value |-> ExtractSuggestionsFromAnalysis(text)])

NextParse == ParseEmbeddedJson \/ ParseLabeled \/ ParseNumbered \/ ParsePage

SpecParse == Init /\ [][NextParse]_vars

\* ------------------------------------------- analyzeAppUsage completes

\* The responses of /api/analyze-reminders that pass response.ok: the
\* suggestions list of the body (a body without one goes through
\* extractSuggestionsFromAnalysis, which yields a list of the same shape).
Suggestion(title, shouldRemind) ==
  [title |-> title, description |-> Chars("d", 21), appName |-> <<"A">>,
   shouldRemind |-> shouldRemind]

Responses ==
  { <<>>, <<Suggestion(Chars("t", 5), TRUE)>>,
    <<Suggestion(Chars("t", 5), FALSE)>> }

\* The random suffix of a reminder id:
\* Math.random().toString(36).substring(2, 9), one value or another.
Rands == {0, 1}

\* 'Unknown app'
UnknownApp == <<"U", "n", "k", "n", "o", "w", "n", " ", "a", "p", "p">>

\* showSuggestionNotification: the ReminderItem built for a suggestion, with
\* the id `reminder-${Date.now()}-${random}`.
NewReminder(s, r) ==
  [id |-> [prefix |-> "reminder", time |-> clock, rand |-> r],
   title |-> s.title, description |-> s.description,
   appName |-> IF Has(s, "appName") THEN s.appName ELSE UnknownApp,
   status |-> "pending"]

\* The flag the loop over the suggestions tests: suggestion.shouldRemind for
\* data.suggestions, suggestion.shouldNotify for the suggestions of
\* extractSuggestionsFromAnalysis.
Flagged(s) == IF Has(s, "shouldRemind") THEN s.shouldRemind ELSE s.shouldNotify

\* suggestions.forEach(s => flag && showSuggestionNotification(..)): the list
\* after one setTodoList(prev => [...prev, newReminder]) for each flagged
\* suggestion; rs holds the random suffix drawn for each suggestion.
RECURSIVE TodoListAfter(_, _, _)
TodoListAfter(list, suggestions, rs) ==
  IF suggestions = <<>> THEN list
  ELSE TodoListAfter(
         IF Flagged(Head(suggestions))
         THEN Append(list, NewReminder(Head(suggestions), Head(rs))) ELSE list,
         Tail(suggestions), Tail(rs))

\* A catch block that puts the batch of the failed request back in the queue.
AnalysisFailedRequeued(a) ==
  /\ errorMessage' = "Failed to analyze app usage patterns"
  /\ activitiesQueueRef' =
       (IF batchLog = <<>> THEN <<>> ELSE batchLog[Len(batchLog)].items)
         \o activitiesQueueRef
  /\ analyses' = analyses \ {a}
  /\ UNCHANGED <<clock, source, isTracking, isTrackingRef, sessionStartTimeRef,
                 lastCheckedTimestamp, fetchIntervalRef,
                 analysisIntervalRef, intervals, timeouts, probes, inflight,
                 appHistory, currentApp, issued, appendLog, batchLog, lastPoll,
                 todoList, lastStop, exchange, peripheral>>

\* fetch threw or the response was not ok: the catch block of analyzeAppUsage.
AnalysisFailed(a) ==
  /\ errorMessage' = "Failed to analyze app usage patterns"
  /\ isTracking' = (isTracking /\ TrackingAfterError)
  /\ isTrackingRef' = TrackingAfterError
  /\ analyses' = analyses \ {a}
  /\ UNCHANGED <<clock, source, sessionStartTimeRef,
                 lastCheckedTimestamp, activitiesQueueRef, fetchIntervalRef,
                 analysisIntervalRef, intervals, timeouts, probes, inflight,
                 appHistory, currentApp, issued, appendLog, batchLog, lastPoll,
                 todoList, lastStop, exchange, peripheral>>

\* The response was ok: the rest of analyzeAppUsage.
AnalysisReturned(a, suggestions, rs) ==
  /\ todoList' = TodoListAfter(todoList, suggestions, rs)
  /\ analyses' = analyses \ {a}
  /\ UNCHANGED <<clock, source, isTracking, isTrackingRef, sessionStartTimeRef,
                 lastCheckedTimestamp, activitiesQueueRef, fetchIntervalRef,
                 analysisIntervalRef, intervals, timeouts, probes, inflight,
                 appHistory, currentApp, errorMessage, issued, appendLog,
                 batchLog, lastPoll, lastStop, peripheral>>

AnalysisDone ==
  \E a \in analyses :
    \/ AnalysisFailed(a)
    \/ \E suggestions \in Responses :
         \E rs \in [1..Len(suggestions) -> Rands] :
           AnalysisReturned(a, suggestions, rs) /\ UNCHANGED exchange

\* ------------------------------------- one analysis cycle, end to end

\* The output layout a prompt asks the provider for: createAIPrompt of
\* page.tsx and of the labeled-section variant of the endpoint ask for the
\* labeled sections, createAIPrompt of the embedded-JSON variant for a JSON
\* object.
CreateAIPrompt(builder) ==
  [layout |-> IF builder = "json" THEN "json" ELSE "labeled", by |-> builder]

\* The variants of /api/analyze-reminders/route.ts, named by their parser.
Endpoints == {"json", "labeled"}

\* const prompt = customPrompt || createAIPrompt(limitedActivities)
PromptSent(endpoint, request) ==
  IF Has(request, "prompt") THEN request.prompt ELSE CreateAIPrompt(endpoint)

\* The body of the endpoint's 200 response for the provider's text:
\* { analysis, ...extractSuggestionsFromText(text) } from the embedded-JSON
\* variant, { analysis, suggestions } from the labeled-section variant (the
\* timestamp is left out).
ResponseBody(endpoint, text) ==
  IF endpoint = "json"
  THEN [analysis |-> text,
        reminderSuggestions |->
          ExtractSuggestionsFromText(text).value.reminderSuggestions,
        generalInsights |->
          ExtractSuggestionsFromText(text).value.generalInsights]
  ELSE [analysis |-> text,
        suggestions |-> ExtractSuggestionsFromTextLabeled(text)]

\* The suggestions analyzeAppUsage loops over: data.suggestions when the body
\* has that array, else extractSuggestionsFromAnalysis(data.analysis).
PageSuggestions(data) ==
  IF Has(data, "suggestions") THEN data.suggestions
  ELSE ExtractSuggestionsFromAnalysis(data.analysis)

\* Provider texts followed through a cycle: a JSON object with a reminder
\* that passes the filter and one that says not to remind; the same object
\* followed by a labeled section; labeled sections with an entry to remind
\* of, not to remind of, and with a 5-character description; free text with
\* and without a brief-usage phrase.
CycleTexts ==
  LET good == Reminder(Chars("t", 5), Chars("d", 21), <<"A">>, 7)
      quiet == [title |-> Chars("s", 5), description |-> Chars("e", 30),
                appName |-> <<"A">>, shouldRemind |-> FALSE, confidence |-> 10]
      object == Object([reminders |-> <<good, quiet>>, insights |-> <<>>])
  IN { <<object>>,
       <<object, Heading(TRUE)>> \o Entry(Chars("u", 5), Chars("f", 25), True),
       <<Heading(TRUE)>> \o Entry(Chars("t", 5), Chars("d", 21), True)
         \o <<Insights(TRUE, FALSE), Prose(40)>>,
       <<Heading(TRUE)>> \o Entry(Chars("t", 5), Chars("d", 21), False),
       <<Heading(TRUE)>> \o Entry(Chars("t", 5), Chars("d", 5), True),
       <<Prose(20), Brief(<<"A">>), Prose(20)>>,
       <<Prose(60)>> }

\* analyzeAppUsage up to its await: the request with the prompt built by
\* createAIPrompt of page.tsx is posted. The cycle that is followed is the
\* only one in flight.
PostAnalysis ==
  /\ exchange.stage \in {"none", "done"}
  /\ issued.analyses < MaxCycles
  /\ analyses' = analyses \cup AnalyzeAppUsage(issued.analyses + 1)
  /\ issued' = [issued EXCEPT !.analyses = @ + 1]
  /\ exchange' = [stage |-> "sent", id |-> issued.analyses + 1,
                  request |-> [prompt |-> CreateAIPrompt("page")]]
  /\ UNCHANGED <<clock, source, isTracking, isTrackingRef, sessionStartTimeRef,
                 lastCheckedTimestamp, activitiesQueueRef, fetchIntervalRef,
                 analysisIntervalRef, intervals, timeouts, probes, inflight,
                 appHistory, currentApp, errorMessage, appendLog, batchLog,
                 lastPoll, todoList, lastStop, peripheral>>

\* POST of /api/analyze-reminders: the prompt goes to the provider, the
\* provider answers with some text, the variant's parser is applied to it and
\* the response is sent.
EndpointResponds ==
  /\ exchange.stage = "sent"
  /\ \E endpoint \in Endpoints, text \in CycleTexts :
       exchange' = [stage |-> "responded", id |-> exchange.id,
                    request |-> exchange.request, endpoint |-> endpoint,
                    prompt |-> PromptSent(endpoint, exchange.request),
                    text |-> text, data |-> ResponseBody(endpoint, text),
                    before |-> Len(todoList)]
  /\ UNCHANGED controller

\* The rest of analyzeAppUsage for the response that is followed.
PageReceives ==
  /\ exchange.stage = "responded"
  /\ \E a \in analyses :
       /\ a.id = exchange.id
       /\ \E rs \in [1..Len(PageSuggestions(exchange.data)) -> Rands] :
            AnalysisReturned(a, PageSuggestions(exchange.data), rs)
  /\ exchange' = [exchange EXCEPT !.stage = "done", !.before = Len(todoList)]

\* addToTodoList: an item with the id `todo-${Date.now()}` is appended.
\* (page.tsx defines the function and has no call of it.)
AddToTodoList ==
  /\ Len(SelectSeq(todoList, LAMBDA item : item.id.prefix = "todo")) < MaxManual
  /\ todoList' = Append(todoList,
       [id |-> [prefix |-> "todo", time |-> clock],
        title |-> Chars("m", 5), description |-> Chars("n", 21),
        appName |-> <<"A">>, status |-> "pending"])
  /\ UNCHANGED <<clock, source, isTracking, isTrackingRef, sessionStartTimeRef,
                 lastCheckedTimestamp, activitiesQueueRef, fetchIntervalRef,
                 analysisIntervalRef, intervals, timeouts, probes, inflight,
                 appHistory, currentApp, errorMessage, issued, appendLog,
                 batchLog, lastPoll, analyses, lastStop, exchange, peripheral>>

NextCycle ==
  \/ Tick
  \/ PostAnalysis
  \/ EndpointResponds
  \/ PageReceives
  \/ AddToTodoList

SpecCycle == Init /\ [][NextCycle]_vars

\* ------------------------------------------------------- specification

Next ==
  \/ Tick
  \/ StartTracking
  \/ ProbeDone
  \/ StopTracking
  \/ FetchIntervalFire
  \/ FirstFetchFire
  \/ ManualFetch
  \/ PollDone
  \/ AnalysisIntervalFire

Spec == Init /\ [][Next]_vars

\* The controller with the logAppSwitch calls of its polls followed.
NextLog ==
  \/ Tick
  \/ StartTracking
  \/ ProbeDone
  \/ StopTracking
  \/ FetchIntervalFire
  \/ PollDoneLogged
  \/ LogCallDone

SpecLog == Init /\ [][NextLog]_vars

\* The same controller with an ActivitySource that can record a burst.
NextBurst == Next \/ TickBurst

SpecBurst == Init /\ [][NextBurst]_vars

\* The same controller with the responses of /api/analyze-reminders arriving.
NextAnalysis == Next \/ AnalysisDone

SpecAnalysis == Init /\ [][NextAnalysis]_vars

\* SpecAnalysis with fair timers: an interval that stays active keeps firing
\* (setInterval). Nothing is assumed of the awaited calls: a probe, a query or
\* an analysis request may stay in flight forever.
SpecFair ==
  /\ Init
  /\ [][NextAnalysis]_vars
  /\ WF_vars(FetchIntervalFire)
  /\ WF_vars(AnalysisIntervalFire)

\* ------------------------------------------------------------- claims

FetchTimers == {t \in intervals : t.kind = "fetch"}
AnalysisTimers == {t \in intervals : t.kind = "analysis"}

\* The fetchAppActivity call that completed in this step, if one did.
Completed(op) == lastPoll' # lastPoll /\ lastPoll'.op = op

\* C1: the session queue is chronologically non-decreasing by sample timestamp
\* in every reachable state.
C1_QueueChronological ==
  \A i, j \in 1..Len(activitiesQueueRef) :
    i < j => activitiesQueueRef[i].timestamp <= activitiesQueueRef[j].timestamp

\* C2: the queue swap of the analysis tick is atomic with respect to poll
\* appends: the batches swapped out, followed by the present queue, are exactly
\* the samples appended since the queue was last reset, each append once and in
\* order, so an append made before a swap is in that swap's batch and in no
\* other, and an append made after it is in no earlier batch.
C2_SwapAtomic ==
  /\ Flatten([i \in 1..Len(batchLog) |-> batchLog[i].items]) \o activitiesQueueRef
       = appendLog
  /\ \A i \in 1..Len(batchLog) : batchLog[i].items # <<>>

\* C2 witness: a poll whose query was in flight at a swap has appended its
\* samples to the fresh queue.
C2_Witness ==
  /\ lastPoll.op = "pollAppend"
  /\ batchLog # <<>>
  /\ lastPoll.id \in batchLog[Len(batchLog)].pending
  /\ activitiesQueueRef # <<>>
  /\ isTrackingRef

\* At most one fetch timer and one analysis timer are active, and exactly one
\* of each while a session has a start time.
TimersOK ==
  /\ Cardinality(FetchTimers) <= 1
  /\ Cardinality(AnalysisTimers) <= 1
  /\ sessionStartTimeRef # Null =>
       Cardinality(FetchTimers) = 1 /\ Cardinality(AnalysisTimers) = 1

\* C3: start() called while already Tracking (a probe of the first call still
\* in flight included) is a no-op: it launches no probe and changes neither the
\* queue, startedAt, the timers nor anything else; and after any sequence of
\* start() calls a session has exactly one fetch timer and one analysis timer.
C3_StartIdempotent ==
  [][ /\ TimersOK'
      /\ ( isTrackingRef /\ issued'.starts + issued'.ignored
                              > issued.starts + issued.ignored )
           => UNCHANGED <<isTracking, isTrackingRef, sessionStartTimeRef,
                          lastCheckedTimestamp, activitiesQueueRef,
                          fetchIntervalRef, analysisIntervalRef, intervals,
                          timeouts, probes, inflight, appHistory, currentApp,
                          errorMessage>> ]_vars

\* C3 witness: start() has been called and ignored while a committed session
\* was running with its two timers.
C3_Witness ==
  /\ issued.ignored > 0
  /\ isTrackingRef
  /\ sessionStartTimeRef # Null
  /\ Cardinality(FetchTimers) = 1
  /\ Cardinality(AnalysisTimers) = 1

\* C4: within one session no sample of the ActivitySource is appended to the
\* queue more than once.
C4_NoDuplicateAppend ==
  \A i, j \in 1..Len(appendLog) :
    i < j => appendLog[i].frame # appendLog[j].frame

\* C5: every poll queries with startTime equal to lastPolledAt, or to startedAt
\* when lastPolledAt is not set, and with endTime equal to now.
C5_PollWindow ==
  [][ \A p \in inflight' \ inflight :
        /\ p.startTime = (IF lastCheckedTimestamp # Null
                          THEN lastCheckedTimestamp ELSE sessionStartTimeRef)
        /\ p.now = clock ]_vars

\* C6: no gaps: a poll that succeeds appends every sample the ActivitySource
\* holds in the polled window, and lastPolledAt never advances past a sample of
\* the session that was not queued.
C6_NoGaps ==
  [][ /\ \A op \in {"pollEmpty", "pollAppend"} :
           Completed(op) =>
             \A i \in 1..Len(source) :
               InWindow(source[i], lastPoll'.startTime, lastPoll'.now) =>
                 \E j \in (Len(activitiesQueueRef) + 1)..Len(activitiesQueueRef') :
                   activitiesQueueRef'[j].frame = source[i].frame
      /\ ( lastCheckedTimestamp' # Null /\ sessionStartTimeRef' # Null ) =>
           \A i \in 1..Len(source') :
             InWindow(source'[i], sessionStartTimeRef', lastCheckedTimestamp') =>
               \E j \in 1..Len(appendLog') : appendLog'[j].frame = source'[i].frame
    ]_vars

\* C7: when a poll's query fails while Tracking, lastPolledAt still advances to
\* the now of that poll, the queue is unchanged and the session stays Tracking.
C7_ErrorAdvances ==
  [][ ( Completed("pollError") /\ isTrackingRef ) =>
        /\ lastCheckedTimestamp' = lastPoll'.now
        /\ activitiesQueueRef' = activitiesQueueRef
        /\ isTrackingRef' ]_vars

\* C8: when a poll's query returns an empty data list while Tracking,
\* lastPolledAt advances to the now of that poll, no error is set, and the
\* queue, the app-switch history and the current app are unchanged.
C8_EmptyAdvances ==
  [][ ( Completed("pollEmpty") /\ isTrackingRef ) =>
        /\ lastCheckedTimestamp' = lastPoll'.now
        /\ UNCHANGED <<activitiesQueueRef, appHistory, currentApp, errorMessage,
                       isTrackingRef, sessionStartTimeRef>> ]_vars

\* C8 witness: an empty result has arrived in a Tracking session that already
\* holds queued samples and a current app, and lastPolledAt is that poll's now.
C8_Witness ==
  /\ lastPoll.op = "pollEmpty"
  /\ isTrackingRef
  /\ sessionStartTimeRef # Null
  /\ lastCheckedTimestamp = lastPoll.now
  /\ activitiesQueueRef # <<>>
  /\ currentApp # ""

\* C9: within a session lastPolledAt never decreases: every update sets it to a
\* value greater than or equal to its previous non-null value.
C9_LastPolledMonotone ==
  [][ ( lastCheckedTimestamp # Null /\ lastCheckedTimestamp' # Null ) =>
        lastCheckedTimestamp' >= lastCheckedTimestamp ]_vars

\* C10: whenever lastPolledAt and startedAt are both set, lastPolledAt >= startedAt.
C10_LastPolledAfterStart ==
  ( lastCheckedTimestamp # Null /\ sessionStartTimeRef # Null ) =>
    lastCheckedTimestamp >= sessionStartTimeRef

\* The step is a startTracking call (accepted or ignored).
StartCalled ==
  issued'.starts + issued'.ignored > issued.starts + issued.ignored

\* The step is the return of a connectivity probe, failed or not.
ProbeReturned == probes' # probes /\ probes' \subseteq probes

\* The step is a probe failure.
ProbeFailure == issued'.probesFailed > issued.probesFailed

\* The step is startTracking committing a session after its probe.
Committed == ProbeReturned /\ ~ProbeFailure

\* The step is a stopTracking that took the controller from Tracking to Idle.
Stopped == isTrackingRef /\ ~isTrackingRef' /\ ~ProbeReturned

\* The step is the completion of an analyzeAppUsage call.
AnalysisCompleted == analyses' # analyses /\ analyses' \subseteq analyses

\* C11: in every reachable state of a session the queue holds no sample whose
\* timestamp is earlier than the session's startedAt.
C11_QueueAfterStart ==
  sessionStartTimeRef # Null =>
    \A i \in 1..Len(activitiesQueueRef) :
      activitiesQueueRef[i].timestamp >= sessionStartTimeRef

\* C12: results of in-flight network calls that arrive after stop() are
\* discarded: a poll query or an analysis call that completes while the
\* tracking flag is false changes neither the queue, lastPolledAt, the
\* app-switch history, the current app nor the ReminderStore.
C12_LateResultsDiscarded ==
  [][ ( ~isTrackingRef /\ (lastPoll' # lastPoll \/ AnalysisCompleted) ) =>
        UNCHANGED <<activitiesQueueRef, lastCheckedTimestamp, appHistory,
                    currentApp, todoList>> ]_vars

\* C13: in every reachable state in which the controller is Idle (tracking flag
\* false) no fetch timer and no analysis timer is active and startedAt is null.
C13_IdleNoTimers ==
  ~isTrackingRef =>
    /\ FetchTimers = {}
    /\ AnalysisTimers = {}
    /\ sessionStartTimeRef = Null

\* C14: when start()'s connectivity probe fails, the controller reverts to
\* Idle, reports a connectivity error, schedules no fetch or analysis timer,
\* and the call (its first half and the failure branch alike) leaves the queue,
\* startedAt and lastPolledAt as they were.
C14_ProbeFailureReverts ==
  [][ /\ ProbeFailure =>
           /\ ~isTrackingRef'
           /\ ~isTracking'
           /\ errorMessage' = "Cannot connect to Screenpipe."
      /\ (StartCalled \/ ProbeFailure) =>
           UNCHANGED <<intervals, timeouts, fetchIntervalRef,
                       analysisIntervalRef, activitiesQueueRef,
                       sessionStartTimeRef, lastCheckedTimestamp>> ]_vars

\* C14 witness: a probe has failed after an earlier session left samples in the
\* queue and a lastPolledAt: the controller is Idle with the connectivity error,
\* no timer, and the queue and lastPolledAt still in place.
C14_Witness ==
  /\ issued.probesFailed > 0
  /\ probes = {}
  /\ ~isTrackingRef
  /\ errorMessage = "Cannot connect to Screenpipe."
  /\ intervals = {}
  /\ activitiesQueueRef # <<>>
  /\ lastCheckedTimestamp # Null

\* C15: stop() followed by start() begins a fresh session: at the step in which
\* a start() made after a stop commits to Tracking, startedAt becomes the
\* present instant, which is not earlier than the stop, lastPolledAt becomes
\* null and the queue becomes empty, so it holds no sample of the prior session.
C15_FreshSession ==
  [][ ( Committed /\ lastStop # Null ) =>
        /\ sessionStartTimeRef' = clock'
        /\ sessionStartTimeRef' >= lastStop
        /\ lastCheckedTimestamp' = Null
        /\ activitiesQueueRef' = <<>> ]_vars

\* C15 witness: a second start() has committed after a stop that ended a
\* session which had polled and queued samples; the new session has a startedAt
\* not earlier than the stop, no lastPolledAt and an empty queue.
C15_Witness ==
  /\ issued.starts = 2
  /\ issued.probesFailed = 0
  /\ probes = {}
  /\ isTrackingRef
  /\ lastStop # Null
  /\ sessionStartTimeRef >= lastStop
  /\ lastPoll.op = "pollAppend"
  /\ lastCheckedTimestamp = Null
  /\ activitiesQueueRef = <<>>
  /\ batchLog = <<>>

\* C16: immediately after stop() takes the controller from Tracking to Idle the
\* queue is empty: samples queued but not yet analysed are discarded at stop.
C16_StopClearsQueue ==
  [][ Stopped => activitiesQueueRef' = <<>> ]_vars

\* C17: stop() and start() never change the ReminderStore: the list of
\* ReminderItems is the same before and after every step of either call (the
\* call of start(), the return of its probe, an effective stop()); and stop()
\* called while Idle changes no state: while the tracking flag is false no
\* step clears startedAt, cancels a timer or resets a timer handle.
C17_StoreUntouched ==
  [][ /\ (StartCalled \/ ProbeReturned \/ Stopped) => todoList' = todoList
      /\ ~isTrackingRef =>
           /\ sessionStartTimeRef # Null => sessionStartTimeRef' # Null
           /\ intervals \subseteq intervals'
           /\ fetchIntervalRef # Null => fetchIntervalRef' # Null
           /\ analysisIntervalRef # Null => analysisIntervalRef' # Null
           /\ lastStop' = lastStop ]_vars

\* C17 witness: the ReminderStore holds an item, start() and stop() have both
\* been called since, and the controller is Idle with a startedAt and timers
\* that a stop() would clear if it were not ignored.
C17_Witness ==
  /\ todoList # <<>>
  /\ issued.starts = 2
  /\ lastStop # Null
  /\ ~isTrackingRef
  /\ sessionStartTimeRef # Null
  /\ intervals # {}

\* C18: poll() invoked (by the fetch timer, the delayed first fetch, or
\* manually) while the controller is not Tracking, or while start() has not
\* yet committed a startedAt, issues no ActivitySource query and changes no
\* state: from such a state no step puts a query in flight, and the step that
\* consumes the delayed first fetch changes nothing else.
C18_PollWhileIdle ==
  [][ ( ~isTrackingRef \/ sessionStartTimeRef = Null ) =>
        /\ inflight' \subseteq inflight
        /\ issued'.polls = issued.polls
        /\ ( timeouts' # timeouts /\ timeouts' \subseteq timeouts ) =>
             UNCHANGED <<clock, source, isTracking, isTrackingRef,
                         sessionStartTimeRef, lastCheckedTimestamp,
                         activitiesQueueRef, fetchIntervalRef,
                         analysisIntervalRef, intervals, probes, inflight,
                         appHistory, currentApp, errorMessage, issued,
                         appendLog, batchLog, lastPoll, analyses, todoList,
                         lastStop, exchange, peripheral>> ]_vars

\* C18 witness: the delayed first fetch of a committed session has fired after
\* stop() and issued no query: no timeout is pending, no poll was ever issued.
C18_Witness ==
  /\ issued.starts = 1
  /\ issued.probesFailed = 0
  /\ probes = {}
  /\ timeouts = {}
  /\ issued.polls = 0
  /\ ~isTrackingRef
  /\ lastStop # Null

\* C19: an analysis tick that finds the queue empty is a no-op: from a state
\* with an empty queue no step sends a request to the AnalysisClient or hands
\* over a batch, the queue stays empty unless a poll completes, and no
\* ReminderItem is added unless an earlier request returns.
C19_EmptyTickNoOp ==
  [][ activitiesQueueRef = <<>> =>
        /\ issued'.analyses = issued.analyses
        /\ analyses' \subseteq analyses
        /\ batchLog' = batchLog \/ batchLog' = <<>>
        /\ activitiesQueueRef' # <<>> => lastPoll' # lastPoll
        /\ todoList' # todoList => AnalysisCompleted ]_vars

\* C19 witness: a Tracking session whose analysis timer is armed and whose
\* queue is empty, after an earlier tick handed over a batch and its request
\* returned with a reminder.
C19_Witness ==
  /\ isTrackingRef
  /\ sessionStartTimeRef # Null
  /\ AnalysisTimers # {}
  /\ activitiesQueueRef = <<>>
  /\ batchLog # <<>>
  /\ analyses = {}
  /\ todoList # <<>>

\* The step is an analyzeAppUsage call ending in its catch block (or a step
\* that cannot be told from one: a completion that adds no reminder while the
\* analysis error is shown).
AnalysisFailure ==
  /\ AnalysisCompleted
  /\ todoList' = todoList
  /\ errorMessage' = "Failed to analyze app usage patterns"

\* C20: a failed poll or a failed analysis cycle never stops tracking: the
\* failure leaves the tracking flag, the timers and startedAt as they were, so
\* after a failure in a Tracking session the flag is still true and one fetch
\* timer and one analysis timer are still active.
C20_FailureKeepsTracking ==
  [][ ( Completed("pollError") \/ AnalysisFailure ) =>
        /\ UNCHANGED <<isTracking, isTrackingRef, sessionStartTimeRef,
                       intervals, timeouts, fetchIntervalRef,
                       analysisIntervalRef>>
        /\ ( isTrackingRef /\ sessionStartTimeRef # Null ) =>
             /\ isTrackingRef'
             /\ Cardinality(FetchTimers') = 1
             /\ Cardinality(AnalysisTimers') = 1 ]_vars

\* C20 witness: a poll and an analysis request have both failed in a session
\* that was never stopped; it is still Tracking with its two timers.
C20_Witness ==
  /\ lastPoll.op = "pollError"
  /\ errorMessage = "Failed to analyze app usage patterns"
  /\ lastStop = Null
  /\ isTrackingRef
  /\ sessionStartTimeRef # Null
  /\ Cardinality(FetchTimers) = 1
  /\ Cardinality(AnalysisTimers) = 1

\* The controller is Tracking a committed session (its timers are running).
TrackingSession == isTrackingRef /\ sessionStartTimeRef # Null

\* C21: while the controller stays Tracking, and under fair timer firing, every
\* failed poll is eventually followed by another poll attempt, every failed
\* analysis cycle is eventually followed by another analysis tick that takes
\* the samples queued since, and an analysis call that stays in flight does
\* not keep later polls from being issued. (MaxCalls bounds the calls of a
\* run: an obligation ends when the session ends or the bound is reached.)
C21_NextCycleProceeds ==
  /\ \A n \in 0..(MaxCalls + 1) :
       ( TrackingSession /\ lastPoll.op = "pollError" /\ issued.polls = n )
         ~> ( issued.polls > n \/ ~TrackingSession \/ Calls >= MaxCalls )
  /\ \A n \in 0..(MaxCalls + 1) :
       ( /\ TrackingSession
         /\ errorMessage = "Failed to analyze app usage patterns"
         /\ activitiesQueueRef # <<>>
         /\ issued.analyses = n )
         ~> ( issued.analyses > n \/ ~TrackingSession \/ activitiesQueueRef = <<>> )
  /\ \A n \in 0..(MaxCalls + 1) :
       ( TrackingSession /\ analyses # {} /\ issued.polls = n )
         ~> ( issued.polls > n \/ ~TrackingSession \/ Calls >= MaxCalls )

\* C21 witness: in a session that was never stopped a poll has failed and a
\* later poll has been issued.
C21_Witness ==
  /\ TrackingSession
  /\ lastPoll.op = "pollError"
  /\ \E p \in inflight : p.id > lastPoll.id
  /\ lastStop = Null

\* The analysis cycle that is followed has ended: the page has handled the
\* endpoint's response.
CycleDone == exchange.stage = "done"

\* The ReminderItems the cycle appended to the ReminderStore.
Added ==
  SelectSeq(SubSeq(todoList, exchange.before + 1, Len(todoList)),
            LAMBDA item : item.id.prefix = "reminder")

\* The suggestions the endpoint's parser accepted from the model response.
Accepted ==
  IF exchange.endpoint = "json" THEN exchange.data.reminderSuggestions
  ELSE exchange.data.suggestions

TitleAndDescription(x) == <<x.title, x.description>>

\* C22: for every suggestion the endpoint's parser accepted from the model
\* response with shouldRemind = true, exactly one pending ReminderItem with
\* its title and description is appended, whichever strategy the endpoint
\* used: the items the cycle appended are, in order, those suggestions.
C22_AcceptedBecomeItems ==
  CycleDone =>
    /\ MapSeq(TitleAndDescription, Added) =
         MapSeq(TitleAndDescription,
                SelectSeq(Accepted, LAMBDA s : s.shouldRemind))
    /\ \A i \in 1..Len(Added) : Added[i].status = "pending"

\* The title and description of every suggestion of the model response that
\* says not to remind: the reminders of a JSON object with shouldRemind false
\* and the labeled entries with "Should Remind: false".
SaidNotToRemind ==
  LET text == exchange.text
      objects == {i \in 1..Len(text) : text[i].t = "object"}
      quiet == UNION { {text[i].json.reminders[k] :
                          k \in {j \in 1..Len(text[i].json.reminders) :
                                   ~text[i].json.reminders[j].shouldRemind}} :
                       i \in objects }
      entries == ExtractSuggestionsFromTextLabeled(text)
  IN {TitleAndDescription(r) : r \in quiet}
       \cup {TitleAndDescription(entries[k]) :
               k \in {j \in 1..Len(entries) : ~entries[j].shouldRemind}}

\* C23: a suggestion whose shouldRemind is false never produces a
\* ReminderItem: no item the cycle appended has the title and description of
\* a suggestion of the model response that says not to remind.
C23_NotRemindedNeverAdded ==
  CycleDone =>
    \A i \in 1..Len(Added) : TitleAndDescription(Added[i]) \notin SaidNotToRemind

\* C24: every ReminderItem created from an analysis cycle satisfies the
\* acceptance invariant: its description is longer than 20 characters,
\* differs from its title and from its appName and contains no "undefined"
\* (the items carry no confidence; the suggestions of the labeled and
\* heuristic strategies have none).
C24_ItemsAcceptable ==
  \A i \in 1..Len(todoList) :
    todoList[i].id.prefix = "reminder" =>
      /\ Len(todoList[i].description) > 20
      /\ todoList[i].description # todoList[i].title
      /\ todoList[i].description # todoList[i].appName
      /\ ~Includes(todoList[i].description, Undefined)

\* The embedded-JSON parser has just been applied to a response text.
JsonParsed == exchange.stage = "parsed" /\ exchange.parser = "json"

\* What the specification says the acceptance filter must reject.
Rejectable(s) ==
  \/ Len(s.description) <= 20
  \/ s.description = s.title
  \/ Has(s, "appName") /\ s.description = s.appName
  \/ Includes(s.description, Undefined)
  \/ Has(s, "confidence") /\ s.confidence < MinConfidence

\* C25: the embedded-JSON strategy returns no suggestion that the acceptance
\* filter must reject: none whose description has 20 characters or fewer,
\* equals its title, equals its appName or contains "undefined", and none
\* whose confidence is present and below 0.7.
C25_FilterRejects ==
  JsonParsed =>
    /\ ~exchange.outcome.threw
    /\ \A i \in 1..Len(exchange.outcome.value.reminderSuggestions) :
         ~Rejectable(exchange.outcome.value.reminderSuggestions[i])

\* C25 witness: the parser was applied to a JSON object with two reminders,
\* one to reject for its 20-character description, and returned the other.
C25_Witness ==
  /\ JsonParsed
  /\ Len(exchange.text) = 1
  /\ exchange.text[1].t = "object"
  /\ Has(exchange.text[1].json, "reminders")
  /\ Len(exchange.text[1].json.reminders) = 2
  /\ \E i \in 1..2 :
       /\ Has(exchange.text[1].json.reminders[i], "description")
       /\ Len(exchange.text[1].json.reminders[i].description) = 20
  /\ Len(exchange.outcome.value.reminderSuggestions) = 1

\* The JSON object of the response text the parser was applied to, when the
\* text is one of those that carry an object.
ParsedJson == exchange.text[CHOOSE i \in 1..Len(exchange.text) :
                              exchange.text[i].t = "object"].json

\* The response matches the declared schema {reminders: [...], insights: [...]}:
\* every reminder has title, description, appName and shouldRemind;
\* confidence, priority and windowName are optional.
MatchesSchema ==
  /\ exchange.text \in JsonTexts
  /\ Has(ParsedJson, "reminders") /\ Has(ParsedJson, "insights")
  /\ \A i \in 1..Len(ParsedJson.reminders) :
       {"title", "description", "appName", "shouldRemind"}
         \subseteq DOMAIN ParsedJson.reminders[i]

\* C26: parser round trip: for a JSON text matching the declared schema the
\* embedded-JSON parser returns, in order, the input reminders that satisfy
\* the acceptance filter (with priority defaulted to medium), a reminder
\* without confidence passing the confidence gate.
C26_RoundTrip ==
  (JsonParsed /\ MatchesSchema) =>
    /\ ~exchange.outcome.threw
    /\ exchange.outcome.value.reminderSuggestions =
         MapSeq(WithPriority,
                SelectSeq(ParsedJson.reminders, LAMBDA r : ~Rejectable(r)))

\* A parser has just been applied to a response text.
ParserApplied == exchange.stage = "parsed"

\* The response text gives the applied parser nothing to extract: for the
\* embedded-JSON parser no brace span that deserializes, or a reminder without
\* description; for the labeled-section parser no "Reminder Suggestions"
\* heading and no brief-usage phrase; for the numbered-block parser no
\* "### " heading.
NothingToExtract ==
  CASE exchange.parser = "json" ->
         \/ exchange.text \notin JsonTexts
         \/ /\ Has(ParsedJson, "reminders")
            /\ \E i \in 1..Len(ParsedJson.reminders) :
                 ~Has(ParsedJson.reminders[i], "description")
    [] exchange.parser \in {"labeled", "page"} ->
         \A i \in 1..Len(exchange.text) :
           exchange.text[i].t \notin {"heading", "brief"}
    [] exchange.parser = "numbered" ->
         \A i \in 1..Len(exchange.text) :
           ~(Has(exchange.text[i], "hashes") /\ exchange.text[i].hashes)

\* C27: no parser raises, whatever the response text, and when the text gives
\* it nothing to extract (no brace span, a span that does not deserialize, a
\* reminder without description, no labeled section, no heuristic phrase) it
\* returns empty reminderSuggestions and empty generalInsights.
C27_NeverRaises ==
  ParserApplied =>
    /\ ~exchange.outcome.threw
    /\ NothingToExtract =>
         exchange.outcome.value \in {EmptyAnalysis, <<>>}

\* C27 witness: the embedded-JSON parser was applied to an object with a
\* reminder that has no description (reading its length throws inside the try
\* block) next to a reminder that passes the filter, and returned empty lists.
C27_Witness ==
  /\ JsonParsed
  /\ exchange.text \in JsonTexts
  /\ Has(ParsedJson, "reminders")
  /\ \E i, j \in 1..Len(ParsedJson.reminders) :
       /\ ~Has(ParsedJson.reminders[i], "description")
       /\ Has(ParsedJson.reminders[j], "description")
       /\ ~Rejectable(ParsedJson.reminders[j])
       /\ Has(ParsedJson.reminders[j], "confidence")
  /\ exchange.outcome = [threw |-> FALSE, value |-> EmptyAnalysis]

\* What the three strategies applied in priority order yield for the model
\* response of the cycle: the suggestions of the embedded-JSON strategy when
\* the text holds a brace span that deserializes, else those of the
\* labeled-section strategy when it finds any, else those of the heuristic.
InPriorityOrder ==
  IF JsonMatch(exchange.text) # <<>> /\ ~TryExtract(exchange.text).threw
  THEN ExtractSuggestionsFromText(exchange.text).value.reminderSuggestions
  ELSE ExtractSuggestionsFromTextLabeled(exchange.text)

\* C28: the three strategies are applied in priority order with fallback
\* (embedded JSON first, labeled sections only if the JSON strategy found no
\* parseable structure, the heuristic only if neither did), and the
\* suggestions of the first strategy that finds structure are the ones that
\* reach the ReminderStore.
C28_PriorityOrder ==
  CycleDone =>
    MapSeq(TitleAndDescription, Added) =
      MapSeq(TitleAndDescription,
             SelectSeq(InPriorityOrder, LAMBDA s : s.shouldRemind))

\* C29: the output layout requested by the prompt that is sent to the
\* provider is the one the parser of the endpoint that handles the cycle
\* expects, also when the client supplies the prompt.
C29_PromptMatchesParser ==
  exchange.stage \in {"responded", "done"} =>
    exchange.prompt.layout = exchange.endpoint

\* C30: no two items of the ReminderStore share an id.
C30_UniqueIds ==
  \A i, j \in 1..Len(todoList) : i # j => todoList[i].id # todoList[j].id

\* ---------------------------------------------------------------------
\* The ReminderStore operations of the page (page.tsx 804-823).

MaxStoreCalls == 2

\* The ids a button of a rendered (possibly stale) list can pass: those of
\* the reminders generated at this time, and one of a manual item, which no
\* generated reminder carries.
Ids ==
  { [prefix |-> "reminder", time |-> clock, rand |-> r] : r \in Rands }
    \cup { [prefix |-> "todo", time |-> clock] }

WithAllCompleted(list, id) ==
  [i \in 1..Len(list) |-> [list[i] EXCEPT !.status = "completed"]]

\* prev.map(item => item.id === id ? { ...item, status: "completed" } : item)
WithCompleted(list, id) ==
  [i \in 1..Len(list) |->
     IF list[i].id = id THEN [list[i] EXCEPT !.status = "completed"]
     ELSE list[i]]

\* prev.filter(item => item.id !== id)
Without(list, id) == SelectSeq(list, LAMBDA item : item.id # id)

StoreCall(op, id, after) ==
  /\ storeOp.calls < MaxStoreCalls
  /\ todoList' = after
  /\ storeOp' = [op |-> op, id |-> id, calls |-> storeOp.calls + 1]
  /\ UNCHANGED <<clock, source, isTracking, isTrackingRef, sessionStartTimeRef,
                 lastCheckedTimestamp, activitiesQueueRef, fetchIntervalRef,
                 analysisIntervalRef, intervals, timeouts, probes, inflight,
                 appHistory, currentApp, errorMessage, issued, appendLog,
                 batchLog, lastPoll, analyses, lastStop, exchange, logCalls,
                 memoryLogs, sinkLog>>

MarkAsCompleted ==
  \E id \in Ids : StoreCall("markAsCompleted", id, WithCompleted(todoList, id))

DeleteTodoItem ==
  \E id \in Ids : StoreCall("deleteTodoItem", id, Without(todoList, id))

NextStore ==
  \/ PostAnalysis
  \/ EndpointResponds
  \/ PageReceives
  \/ MarkAsCompleted
  \/ DeleteTodoItem

SpecStore == Init /\ [][NextStore]_vars

\* The items of a list whose id is not the given one, in the order of the list.
Others(list, id) == SelectSeq(list, LAMBDA item : item.id # id)

Knows(list, id) == \E i \in 1..Len(list) : list[i].id = id

\* C31: markAsCompleted(id) and deleteTodoItem(id) with an id that matches no
\* item leave the list unchanged; with an id of the list they set the status
\* of the items with that id to completed, respectively remove them, and the
\* items with another id and the order of the list are unchanged.
C31_StoreOps ==
  [][ storeOp' # storeOp =>
        /\ ~Knows(todoList, storeOp'.id) => todoList' = todoList
        /\ Others(todoList', storeOp'.id) = Others(todoList, storeOp'.id)
        /\ storeOp'.op = "markAsCompleted" =>
             /\ Len(todoList') = Len(todoList)
             /\ \A i \in 1..Len(todoList) :
                  IF todoList[i].id = storeOp'.id
                  THEN todoList'[i] = [todoList[i] EXCEPT !.status = "completed"]
                  ELSE todoList'[i] = todoList[i]
        /\ storeOp'.op = "deleteTodoItem" =>
             todoList' = Others(todoList, storeOp'.id) ]_vars

\* C31 witness: markAsCompleted was called with the id of one item of a list
\* that holds an item with another id: the one is completed, the other is
\* still pending.
C31_Witness ==
  /\ storeOp.op = "markAsCompleted"
  /\ \E i, j \in 1..Len(todoList) :
       /\ todoList[i].id = storeOp.id
       /\ todoList[i].status = "completed"
       /\ todoList[j].id # storeOp.id
       /\ todoList[j].status = "pending"

\* An analysis request comes back with a failure that the page had not
\* reported before.
AnalysisFailureReported ==
  /\ AnalysisCompleted
  /\ errorMessage # "Failed to analyze app usage patterns"
  /\ errorMessage' = "Failed to analyze app usage patterns"

\* C32: when the request of an analysis cycle fails, or comes back with a text
\* that yields nothing, the batch of the cycle is dropped: the step adds no
\* ReminderItem, puts nothing back in the queue, hands over no batch and sends
\* no further request.
C32_BatchDropped ==
  [][ ( AnalysisFailureReported \/ ( AnalysisCompleted /\ todoList' = todoList ) ) =>
        /\ todoList' = todoList
        /\ activitiesQueueRef' = activitiesQueueRef
        /\ appendLog' = appendLog
        /\ batchLog' = batchLog
        /\ issued'.analyses = issued.analyses ]_vars

\* C32 witness: the only request sent so far has failed; its batch is in no
\* queue and no request is in flight.
C32_Witness ==
  /\ issued.analyses = 1
  /\ analyses = {}
  /\ errorMessage = "Failed to analyze app usage patterns"
  /\ Len(batchLog) = 1
  /\ activitiesQueueRef = <<>>
  /\ todoList = <<>>
  /\ isTrackingRef

\* C33: a poll derives an app-switch event exactly for the samples whose
\* appName differs from the most recently seen appName, so no event of the
\* app history follows an event of the same app.
C33_EventsAreSwitches ==
  \A i \in 2..Len(appHistory) :
    appHistory[i].appName # appHistory[i - 1].appName

\* The POST of a logAppSwitch call comes back not ok, or throws.
LogFailure ==
  \E i \in 1..Len(logCalls) :
    /\ logCalls[i].state = "pending"
    /\ logCalls'[i].state \in {"notOk", "threw"}

\* A poll completes and makes logAppSwitch calls.
PollLogged == Len(logCalls') > Len(logCalls) /\ inflight' # inflight

\* C34: forwarding to the log sink is fire-and-forget. A log call that throws
\* or is answered with a non-2xx response is not made again and changes
\* nothing of the session; and the poll that makes log calls appends its
\* samples, advances lastPolledAt to its own query time, reports no error and
\* leaves the tracking flag as it is.
C34_FireAndForget ==
  [][ /\ LogFailure =>
           /\ Len(logCalls') = Len(logCalls)
           /\ \A i \in 1..Len(logCalls) :
                logCalls'[i].request = logCalls[i].request
           /\ UNCHANGED <<isTracking, isTrackingRef, sessionStartTimeRef,
                          lastCheckedTimestamp, activitiesQueueRef,
                          fetchIntervalRef, analysisIntervalRef, intervals,
                          timeouts, inflight, appHistory, currentApp,
                          errorMessage, issued, appendLog, lastPoll>>
      /\ PollLogged =>
           /\ lastPoll'.op = "pollAppend"
           /\ Len(appendLog') > Len(appendLog)
           /\ Len(activitiesQueueRef') > Len(activitiesQueueRef)
           /\ lastCheckedTimestamp' = lastPoll'.now
           /\ errorMessage' = errorMessage
           /\ UNCHANGED <<isTracking, isTrackingRef, sessionStartTimeRef,
                          intervals>> ]_vars

\* C34 witness: in a Tracking session without an error message, a poll has
\* appended samples and a log call it made has failed, one with a non-2xx
\* response and one with a thrown fetch.
C34_Witness ==
  /\ isTrackingRef
  /\ errorMessage = ""
  /\ lastPoll.op = "pollAppend"
  /\ activitiesQueueRef # <<>>
  /\ \E i, j \in 1..Len(logCalls) :
       logCalls[i].state = "notOk" /\ logCalls[j].state = "threw"

LabeledApplied == ParserApplied /\ exchange.parser \in {"labeled", "page"}

\* The radius of the context of the applied labeled-section parser.
Radius == IF exchange.parser = "labeled" THEN 300 ELSE 200

\* A "should remind: false" lies in the context from..to of the section.
FalseIn(section, from, to) ==
  \E k \in FieldsIn(section, "should remind", from, to) :
    LET v == ValueIn(section, k, to)
    IN Len(v) >= Len(False) /\ SubSeq(v, 1, Len(False)) = False

\* The flags the labeled-section strategy is to emit for the "app name"
\* matches: one for each match with a title and a description in its
\* context, false exactly when a "should remind: false" is in the context.
RECURSIVE FlagsDue(_, _)
FlagsDue(section, matches) ==
  IF matches = <<>> THEN <<>>
  ELSE LET k == Head(matches)
           from == ContextStart(section, k, Radius)
           to == ContextEnd(section, k, Radius)
       IN (IF /\ FieldsIn(section, "title", from, to) # {}
              /\ FieldsIn(section, "description", from, to) # {}
           THEN <<~FalseIn(section, from, to)>> ELSE <<>>)
          \o FlagsDue(section, Tail(matches))

\* C35: the labeled-section strategy emits a suggestion for an "App Name:"
\* occurrence only when a "Title:" and a "Description:" are found in the
\* window around it, and the flag of the suggestion is false exactly when a
\* "Should Remind: false" is found in that window.
C35_LabeledFlags ==
  LabeledApplied =>
    LET section == ReminderSection(exchange.text)
        due == FlagsDue(section, AppNameMatches(section, 1))
    IN due # <<>> => MapSeq(Flagged, exchange.outcome.value) = due

\* The suggestion is one of the heuristic strategy: its title is the one
\* built for a brief-usage phrase of the text.
IsHeuristic(s) ==
  \E i \in 1..Len(exchange.text) :
    /\ exchange.text[i].t = "brief"
    /\ s.title = BriefTitle(exchange.text[i])

\* C36: the heuristic strategy is a last resort. When the labeled-section
\* strategy emits a suggestion, the result holds no heuristic suggestion;
\* when it emits none, the result holds one suggestion for each brief-usage
\* match, in order, each with its flag true.
C36_HeuristicLastResort ==
  LabeledApplied =>
    LET section == ReminderSection(exchange.text)
        due == FlagsDue(section, AppNameMatches(section, 1))
        briefs == BriefMatches(exchange.text)
        out == exchange.outcome.value
    IN IF due # <<>>
       THEN /\ Len(out) = Len(due)
            /\ \A i \in 1..Len(out) : ~IsHeuristic(out[i])
       ELSE /\ Len(out) = Len(briefs)
            /\ \A i \in 1..Len(out) :
                 /\ out[i].title = BriefTitle(briefs[i])
                 /\ out[i].appName = briefs[i].appName
                 /\ Flagged(out[i])

\* C36 witness: the endpoint's parser was applied to a text with a brief-usage
\* phrase and a labeled entry, and returned the suggestion of the entry alone.
C36_Witness ==
  /\ ParserApplied
  /\ exchange.parser = "labeled"
  /\ BriefMatches(exchange.text) # <<>>
  /\ Len(exchange.outcome.value) = 1
  /\ exchange.outcome.value[1].title = Chars("t", 5)

\* ---------------------------------------------------------------------
\* The samples a prompt is built from (page.tsx 519-553, route.ts 124-129).

MaxBatch == 60

\* activities.length > n ? activities.slice(-n) : activities
Slice(activities, n) ==
  IF Len(activities) > n
  THEN SubSeq(activities, Len(activities) - n + 1, Len(activities))
  ELSE activities

\* The batches handed to analyzeAppUsage: samples numbered in queue order.
Batches == { [i \in 1..n |-> i] : n \in 1..MaxBatch }

\* createAIPrompt of page.tsx lists every activity it is given;
\* createAIPrompt of the endpoint lists activities.slice(-20).
PromptFrom(builder, activities) ==
  With(CreateAIPrompt(builder), "samples",
       IF builder = "page" THEN activities ELSE Slice(activities, 20))

\* analyzeAppUsage up to its await: limitedActivities and the prompt built
\* from them are posted.
PagePosts ==
  /\ exchange.stage = "none"
  /\ \E batch \in Batches :
       LET limitedActivities == Slice(batch, 50)
       IN exchange' = [stage |-> "posted", batch |-> batch,
                       request |-> [activities |-> limitedActivities,
                                    prompt |-> PromptFrom("page", limitedActivities)]]
  /\ UNCHANGED controller

\* A request with the activities alone: the endpoint takes the prompt of the
\* body as optional.
ClientPosts ==
  /\ exchange.stage = "none"
  /\ \E batch \in Batches :
       exchange' = [stage |-> "posted", batch |-> batch,
                    request |-> [activities |-> batch]]
  /\ UNCHANGED controller

\* POST of /api/analyze-reminders up to the call of the provider:
\* limitedActivities, then customPrompt || createAIPrompt(limitedActivities).
EndpointPrompts ==
  /\ exchange.stage = "posted"
  /\ \E endpoint \in Endpoints :
       LET limitedActivities == Slice(exchange.request.activities, 20)
       IN exchange' = [stage |-> "prompted", batch |-> exchange.batch,
                       request |-> exchange.request, endpoint |-> endpoint,
                       prompt |-> IF Has(exchange.request, "prompt")
                                  THEN exchange.request.prompt
                                  ELSE PromptFrom(endpoint, limitedActivities)]
  /\ UNCHANGED controller

NextPrompt == PagePosts \/ ClientPosts \/ EndpointPrompts

SpecPrompt == Init /\ [][NextPrompt]_vars

\* C37: the prompt sent to the provider is built from the most recent samples
\* of the batch in their order: at most 50 in a prompt built by the page, and
\* at most 20 in every prompt the endpoint sends, the page's included.
C37_PromptCapped ==
  exchange.stage = "prompted" =>
    /\ Has(exchange.request, "prompt") =>
         exchange.request.prompt.samples = Slice(exchange.batch, 50)
    /\ Len(exchange.prompt.samples) <= 20
    /\ exchange.prompt.samples = Slice(exchange.batch, 20)

\* ---------------------------------------------------------------------
\* The log sink: the route /api/logs (src/unnamed/part_001).

MaxPosts == 1002
MaxSinkPosts == 8

\* if (memoryLogs.length > 1000) memoryLogs = memoryLogs.slice(-1000)
LogCap == 1000

\* JSON values carry their type: typeof is read from the tag.
Num(n) == [type |-> "number", n |-> n]
Str(s) == [type |-> "string", s |-> s]
JsonNull == [type |-> "null"]
Obj(fields) == [type |-> "object", fields |-> fields]

\* The text of a request body: empty, blank, a text that JSON.parse rejects,
\* or a text that it deserializes to the value json.
Json(v) == [t |-> "json", json |-> v]

\* !text || text.trim() === ''
EmptyText(text) == text.t \in {"empty", "blank"}

\* JSON.parse(text)
ParseBody(text) ==
  IF text.t = "json" THEN [threw |-> FALSE, value |-> text.json]
  ELSE [threw |-> TRUE]

\* !newLog: null, 0 and '' are falsy.
Falsy(v) ==
  \/ v.type = "null"
  \/ v.type = "number" /\ v.n = 0
  \/ v.type = "string" /\ v.s = ""

\* typeof newLog[field]: a value that is no object, and an object without
\* the property, give 'undefined'; typeof null is 'object'.
TypeOf(newLog, field) ==
  IF newLog.type = "object" /\ Has(newLog.fields, field)
  THEN IF newLog.fields[field].type = "null" THEN "object"
       ELSE newLog.fields[field].type
  ELSE "undefined"

\* A validation that looks at the timestamp alone.
ValidLogByTimestamp(newLog) ==
  ~Falsy(newLog) /\ TypeOf(newLog, "timestamp") = "number"

\* The negation of the condition of the 400 'Invalid log data' branch.
ValidLog(newLog) ==
  /\ ~Falsy(newLog)
  /\ TypeOf(newLog, "timestamp") = "number"
  /\ TypeOf(newLog, "app") = "string"

\* if (newLog.windowName === undefined || newLog.windowName === null)
\*   newLog.windowName = ''
WithWindowName(newLog) ==
  IF newLog.type # "object" THEN newLog
  ELSE IF \/ ~Has(newLog.fields, "windowName")
          \/ newLog.fields.windowName.type = "null"
       THEN Obj(With(newLog.fields, "windowName", Str("")))
       ELSE newLog

\* A push that is followed by no truncation.
PushedUncapped(logs, newLog) == Append(logs, newLog)

\* memoryLogs.push(newLog), then the truncation to the last 1000.
Pushed(logs, newLog) == Slice(Append(logs, newLog), LogCap)

\* The response of POST for a body, and the log after it.
PostResponse(text) ==
  IF EmptyText(text) THEN [status |-> 400, error |-> "Empty request body"]
  ELSE IF ParseBody(text).threw
       THEN [status |-> 400, error |-> "Invalid JSON in request body"]
       ELSE IF ~ValidLog(ParseBody(text).value)
            THEN [status |-> 400, error |-> "Invalid log data"]
            ELSE [status |-> 200, message |-> "Log saved successfully"]

\* The bodies a client posts that hold no valid log.
InvalidBodies ==
  { [t |-> "empty"], [t |-> "blank"], [t |-> "malformed"],
    Json(JsonNull), Json(Num(5)),
    Json(Obj([app |-> Str("A")])),
    Json(Obj([timestamp |-> Str("1"), app |-> Str("A")])),
    Json(Obj([timestamp |-> Num(1), app |-> Num(2), windowName |-> Str("W")])) }

\* The body of the n-th valid POST since the log was last cleared: its
\* timestamp is n, and the windowName is missing, null or a string in turn.
ValidBody(n) ==
  LET log == [timestamp |-> Num(n), app |-> Str("A")]
  IN Json(Obj(CASE n % 3 = 0 -> log
                [] n % 3 = 1 -> With(log, "windowName", JsonNull)
                [] OTHER -> With(log, "windowName", Str("W"))))

\* POST /api/logs with one of the bodies; max bounds the valid POSTs since the
\* log was last cleared.
PostLogOf(bodies, max) ==
  /\ \E text \in bodies :
       LET response == PostResponse(text)
       IN /\ response.status = 200 => sinkLog.posted < max
          /\ memoryLogs' =
               IF response.status = 200
               THEN Pushed(memoryLogs, WithWindowName(ParseBody(text).value))
               ELSE memoryLogs
          /\ sinkLog' = [posted |-> IF response.status = 200
                                    THEN sinkLog.posted + 1 ELSE sinkLog.posted,
                         request |-> [method |-> "POST", body |-> text],
                         response |-> response]
  /\ UNCHANGED <<clock, source, isTracking, isTrackingRef, sessionStartTimeRef,
                 lastCheckedTimestamp, activitiesQueueRef, fetchIntervalRef,
                 analysisIntervalRef, intervals, timeouts, probes, inflight,
                 appHistory, currentApp, errorMessage, issued, appendLog,
                 batchLog, lastPoll, analyses, todoList, lastStop, exchange,
                 storeOp, logCalls>>

\* POST /api/logs with any body.
PostLog ==
  PostLogOf(InvalidBodies \cup {ValidBody(sinkLog.posted + 1)}, MaxSinkPosts)

\* POST /api/logs by a client that goes on posting: with a valid body, or
\* with one that is no JSON.
PostLogLong ==
  PostLogOf({[t |-> "malformed"], ValidBody(sinkLog.posted + 1)}, MaxPosts)

\* The query parameters of a GET: limit and since, each absent or a number
\* (parseInt of the parameter).
Queries ==
  { [x \in {} |-> 0], [limit |-> 0], [since |-> 2],
    [limit |-> 2, since |-> 2] }

\* The logs a GET returns: those with timestamp >= since when since is
\* truthy, then the last limit of them when limit is greater than 0.
LogsFor(logs, query) ==
  LET filtered == IF Has(query, "since") /\ query.since # 0
                  THEN SelectSeq(logs,
                         LAMBDA log : log.fields.timestamp.n >= query.since)
                  ELSE logs
  IN IF Has(query, "limit") /\ query.limit > 0
     THEN SubSeq(filtered, Len(filtered) - Min(Len(filtered), query.limit) + 1,
                 Len(filtered))
     ELSE filtered

\* GET /api/logs with one of the queries.
GetLogsOf(queries) ==
  /\ \E query \in queries :
       sinkLog' = [posted |-> sinkLog.posted,
                   request |-> [method |-> "GET", query |-> query],
                   response |-> [status |-> 200,
                                 logs |-> LogsFor(memoryLogs, query)]]
  /\ UNCHANGED <<clock, source, isTracking, isTrackingRef, sessionStartTimeRef,
                 lastCheckedTimestamp, activitiesQueueRef, fetchIntervalRef,
                 analysisIntervalRef, intervals, timeouts, probes, inflight,
                 appHistory, currentApp, errorMessage, issued, appendLog,
                 batchLog, lastPoll, analyses, todoList, lastStop, exchange,
                 storeOp, logCalls, memoryLogs>>

GetLogs == GetLogsOf(Queries)

\* GET /api/logs?limit=2
GetLogsLast == GetLogsOf({[limit |-> 2]})

\* DELETE /api/logs
DeleteLogs ==
  /\ memoryLogs' = <<>>
  /\ sinkLog' = [posted |-> 0, request |-> [method |-> "DELETE"],
                 response |-> [status |-> 200,
                               message |-> "All logs cleared successfully"]]
  /\ UNCHANGED <<clock, source, isTracking, isTrackingRef, sessionStartTimeRef,
                 lastCheckedTimestamp, activitiesQueueRef, fetchIntervalRef,
                 analysisIntervalRef, intervals, timeouts, probes, inflight,
                 appHistory, currentApp, errorMessage, issued, appendLog,
                 batchLog, lastPoll, analyses, todoList, lastStop, exchange,
                 storeOp, logCalls>>

\* The route with every kind of request.
NextSink == PostLog \/ GetLogs \/ DeleteLogs

SpecSink == Init /\ [][NextSink]_vars

\* The route over more valid POSTs than the log keeps.
NextSinkLong == PostLogLong \/ GetLogsLast \/ DeleteLogs

SpecSinkLong == Init /\ [][NextSinkLong]_vars

\* C38: the in-memory log of the log sink never holds more than 1000
\* entries, and it holds the most recently posted entries in posting order:
\* all of them up to 1000, the last 1000 beyond.
C38_LogCapped ==
  /\ Len(memoryLogs) <= LogCap
  /\ Len(memoryLogs) = Min(sinkLog.posted, LogCap)
  /\ \A i \in 1..Len(memoryLogs) :
       memoryLogs[i].fields.timestamp.n = sinkLog.posted - Len(memoryLogs) + i

\* C38 witness: 1002 valid POSTs since the log was last cleared; the log
\* holds 1000 entries, the third POST's first.
C38_Witness ==
  /\ sinkLog.posted = LogCap + 2
  /\ Len(memoryLogs) = LogCap
  /\ memoryLogs[1].fields.timestamp.n = 3
  /\ memoryLogs[LogCap].fields.timestamp.n = LogCap + 2

\* The body is empty, is no JSON, or deserializes to a value without a
\* number timestamp or without a string app.
BadBody(text) ==
  \/ text.t \in {"empty", "blank", "malformed"}
  \/ /\ text.t = "json"
     /\ \/ text.json.type # "object"
        \/ ~Has(text.json.fields, "timestamp")
        \/ text.json.fields.timestamp.type # "number"
        \/ ~Has(text.json.fields, "app")
        \/ text.json.fields.app.type # "string"

\* C39: a POST whose body is empty, is invalid JSON, or has a non-number
\* timestamp or a non-string app is answered with 400 and leaves the log
\* unchanged; a GET never changes the log; a valid POST is answered with 200
\* and appends exactly one entry, the posted log with windowName defaulted
\* to '' when missing; and only DELETE empties the log.
C39_SinkRequests ==
  [][ ( sinkLog' # sinkLog \/ memoryLogs' # memoryLogs ) =>
        LET request == sinkLog'.request
            response == sinkLog'.response
        IN /\ ( request.method = "POST" /\ BadBody(request.body) ) =>
                response.status = 400 /\ memoryLogs' = memoryLogs
           /\ request.method = "GET" => memoryLogs' = memoryLogs
           /\ ( request.method = "POST" /\ ~BadBody(request.body) ) =>
                /\ response.status = 200
                /\ memoryLogs' # <<>>
                /\ LET posted == request.body.json.fields
                       entry == memoryLogs'[Len(memoryLogs')].fields
                       kept == Len(memoryLogs') - 1
                   IN /\ entry.timestamp = posted.timestamp
                      /\ entry.app = posted.app
                      /\ entry.windowName =
                           IF Has(posted, "windowName")
                              /\ posted.windowName.type = "string"
                           THEN posted.windowName ELSE Str("")
                      /\ kept <= Len(memoryLogs)
                      /\ SubSeq(memoryLogs', 1, kept) =
                           SubSeq(memoryLogs, Len(memoryLogs) - kept + 1,
                                  Len(memoryLogs))
           /\ ( memoryLogs' = <<>> /\ memoryLogs # <<>> ) =>
                request.method = "DELETE"
           /\ request.method = "DELETE" => memoryLogs' = <<>> ]_vars

\* C39 witness: the log holds earlier entries and the last request was a
\* valid POST without windowName, whose entry is the last of the log with
\* windowName ''.
C39_Witness ==
  /\ Len(memoryLogs) >= 2
  /\ sinkLog.request.method = "POST"
  /\ sinkLog.response.status = 200
  /\ ~Has(sinkLog.request.body.json.fields, "windowName")
  /\ memoryLogs[Len(memoryLogs)].fields.windowName = Str("")
  /\ memoryLogs[Len(memoryLogs)].fields.timestamp = Num(sinkLog.posted)

====
